---- MODULE Spec2Model ----
(***************************************************************************)
(* The atlas decoding scripts of atlas-divisions-site (scripts/*.py):      *)
(*   kmeans_atlas_analysis.py        clusters the atlas palette (K-means)  *)
(*                                    and binds clusters to the Cinzano    *)
(*                                    scale; pickles (mapping, model)      *)
(*   decode_atlas_lightmap_kmeans.py  remaps every pixel through the       *)
(*                                    pickled mapping                      *)
(*   decode_atlas_lightmap.py         remaps every pixel by its brightness *)
(*   process_grayscale_atlas.py       remaps the red channel (vectorised)  *)
(*   process_nightlights.py           tone chain enhance_for_emissive      *)
(*                                                                         *)
(* One user session: scripts run one at a time, each as a sequence of      *)
(* steps; the files they read and write persist between runs.              *)
(*                                                                         *)
(* Conventions.  Python sequences are 0-based, TLA+ sequences 1-based:     *)
(* entry i of a Python list is element i+1 here.  K-means centroids are    *)
(* floats; the model keeps them in half units (a centre <<401,400,400>>    *)
(* is (200.5, 200.0, 200.0)), so int() truncation and brightness are       *)
(* computed, not assumed.                                                  *)
(***************************************************************************)
EXTENDS Integers, Sequences, FiniteSets, TLC

(***************************************************************************)
(* Bounds of the model.                                                    *)
(***************************************************************************)
\* target_size is (2000, 1000) in the scripts; the model remaps a small grid.
Height == 1
Width == 2

\* The longest response, in chunks of 8192 bytes.
MaxChunks == 2

\* The most PNG files in nasa_nightlights/.
MaxInputs == 2

(***************************************************************************)
(* Program constants.                                                      *)
(***************************************************************************)
n_clusters == 16

\* Mutant of cinzano_categories: the intensities of 'Yellow 2' and 'Orange 1'
\* exchanged.
cinzano_categories_swapped ==
  << [category |-> "Black 1",        ratio_range |-> "<0.01",       intensity |-> 0],
     [category |-> "Black 2",        ratio_range |-> "0.01-0.06",   intensity |-> 8],
     [category |-> "Dark Gray 1",    ratio_range |-> "0.06-0.11",   intensity |-> 16],
     [category |-> "Dark Gray 2",    ratio_range |-> "0.11-0.19",   intensity |-> 24],
     [category |-> "Blue 1",         ratio_range |-> "0.19-0.33",   intensity |-> 32],
     [category |-> "Blue 2",         ratio_range |-> "0.33-0.58",   intensity |-> 48],
     [category |-> "Green 1",        ratio_range |-> "0.58-1.00",   intensity |-> 64],
     [category |-> "Green 2",        ratio_range |-> "1.00-1.73",   intensity |-> 80],
     [category |-> "Yellow 1",       ratio_range |-> "1.73-3.00",   intensity |-> 96],
     [category |-> "Yellow 2",       ratio_range |-> "3.00-5.20",   intensity |-> 160],
     [category |-> "Orange 1",       ratio_range |-> "5.20-9.00",   intensity |-> 128],
     [category |-> "Orange 2",       ratio_range |-> "9.00-15.59",  intensity |-> 192],
     [category |-> "Red 1",          ratio_range |-> "15.59-27.00", intensity |-> 224],
     [category |-> "Red 2",          ratio_range |-> "27.00-46.77", intensity |-> 240],
     [category |-> "White 1",        ratio_range |-> ">46.77",      intensity |-> 255],
     [category |-> "White 2/Border", ratio_range |-> "Border",      intensity |-> 0] >>

\* The expanded Cinzano scale, in table order: (name, ratio range, intensity).
cinzano_categories ==
  << [category |-> "Black 1",        ratio_range |-> "<0.01",       intensity |-> 0],
     [category |-> "Black 2",        ratio_range |-> "0.01-0.06",   intensity |-> 8],
     [category |-> "Dark Gray 1",    ratio_range |-> "0.06-0.11",   intensity |-> 16],
     [category |-> "Dark Gray 2",    ratio_range |-> "0.11-0.19",   intensity |-> 24],
     [category |-> "Blue 1",         ratio_range |-> "0.19-0.33",   intensity |-> 32],
     [category |-> "Blue 2",         ratio_range |-> "0.33-0.58",   intensity |-> 48],
     [category |-> "Green 1",        ratio_range |-> "0.58-1.00",   intensity |-> 64],
     [category |-> "Green 2",        ratio_range |-> "1.00-1.73",   intensity |-> 80],
     [category |-> "Yellow 1",       ratio_range |-> "1.73-3.00",   intensity |-> 96],
     [category |-> "Yellow 2",       ratio_range |-> "3.00-5.20",   intensity |-> 128],
     [category |-> "Orange 1",       ratio_range |-> "5.20-9.00",   intensity |-> 160],
     [category |-> "Orange 2",       ratio_range |-> "9.00-15.59",  intensity |-> 192],
     [category |-> "Red 1",          ratio_range |-> "15.59-27.00", intensity |-> 224],
     [category |-> "Red 2",          ratio_range |-> "27.00-46.77", intensity |-> 240],
     [category |-> "White 1",        ratio_range |-> ">46.77",      intensity |-> 255],
     [category |-> "White 2/Border", ratio_range |-> "Border",      intensity |-> 0] >>

\* The category name the k-means decoder filters out.
BorderCategory == "White 2/Border"

(***************************************************************************)
(* Lookup tables of the floating-point curves.  TLC has no reals: each     *)
(* table lists the value the source expression yields on every input.      *)
(***************************************************************************)
\* brightness_to_intensity(s/3) for a channel sum s = 0..765 (element s+1):
\* min(255, max(0, int(((s/3)/255.0) ** (1.0/2.2) * 255))).
brightness_to_intensity_table ==
  <<
     0, 12, 17, 20, 23, 25, 28, 30, 32, 33, 35, 37, 38, 40, 41, 42,
     43, 45, 46, 47, 48, 49, 50, 51, 52, 53, 54, 55, 56, 57, 58, 59,
     60, 61, 61, 62, 63, 64, 65, 65, 66, 67, 68, 68, 69, 70, 71, 71,
     72, 73, 73, 74, 75, 75, 76, 77, 77, 78, 78, 79, 80, 80, 81, 81,
     82, 83, 83, 84, 84, 85, 85, 86, 87, 87, 88, 88, 89, 89, 90, 90,
     91, 91, 92, 92, 93, 93, 94, 94, 95, 95, 96, 96, 97, 97, 98, 98,
     99, 99, 100, 100, 101, 101, 102, 102, 102, 103, 103, 104, 104, 105, 105, 106,
     106, 106, 107, 107, 108, 108, 109, 109, 109, 110, 110, 111, 111, 111, 112, 112,
     113, 113, 113, 114, 114, 115, 115, 115, 116, 116, 117, 117, 117, 118, 118, 118,
     119, 119, 120, 120, 120, 121, 121, 121, 122, 122, 123, 123, 123, 124, 124, 124,
     125, 125, 125, 126, 126, 126, 127, 127, 128, 128, 128, 129, 129, 129, 130, 130,
     130, 131, 131, 131, 132, 132, 132, 133, 133, 133, 134, 134, 134, 135, 135, 135,
     136, 136, 136, 136, 137, 137, 137, 138, 138, 138, 139, 139, 139, 140, 140, 140,
     141, 141, 141, 141, 142, 142, 142, 143, 143, 143, 144, 144, 144, 145, 145, 145,
     145, 146, 146, 146, 147, 147, 147, 147, 148, 148, 148, 149, 149, 149, 149, 150,
     150, 150, 151, 151, 151, 151, 152, 152, 152, 153, 153, 153, 153, 154, 154, 154,
     155, 155, 155, 155, 156, 156, 156, 156, 157, 157, 157, 158, 158, 158, 158, 159,
     159, 159, 159, 160, 160, 160, 160, 161, 161, 161, 162, 162, 162, 162, 163, 163,
     163, 163, 164, 164, 164, 164, 165, 165, 165, 165, 166, 166, 166, 166, 167, 167,
     167, 167, 168, 168, 168, 168, 169, 169, 169, 169, 170, 170, 170, 170, 171, 171,
     171, 171, 172, 172, 172, 172, 173, 173, 173, 173, 174, 174, 174, 174, 174, 175,
     175, 175, 175, 176, 176, 176, 176, 177, 177, 177, 177, 178, 178, 178, 178, 178,
     179, 179, 179, 179, 180, 180, 180, 180, 181, 181, 181, 181, 181, 182, 182, 182,
     182, 183, 183, 183, 183, 183, 184, 184, 184, 184, 185, 185, 185, 185, 185, 186,
     186, 186, 186, 187, 187, 187, 187, 187, 188, 188, 188, 188, 189, 189, 189, 189,
     189, 190, 190, 190, 190, 190, 191, 191, 191, 191, 192, 192, 192, 192, 192, 193,
     193, 193, 193, 193, 194, 194, 194, 194, 195, 195, 195, 195, 195, 196, 196, 196,
     196, 196, 197, 197, 197, 197, 197, 198, 198, 198, 198, 198, 199, 199, 199, 199,
     199, 200, 200, 200, 200, 200, 201, 201, 201, 201, 201, 202, 202, 202, 202, 202,
     203, 203, 203, 203, 203, 204, 204, 204, 204, 204, 205, 205, 205, 205, 205, 206,
     206, 206, 206, 206, 207, 207, 207, 207, 207, 208, 208, 208, 208, 208, 209, 209,
     209, 209, 209, 209, 210, 210, 210, 210, 210, 211, 211, 211, 211, 211, 212, 212,
     212, 212, 212, 213, 213, 213, 213, 213, 213, 214, 214, 214, 214, 214, 215, 215,
     215, 215, 215, 216, 216, 216, 216, 216, 216, 217, 217, 217, 217, 217, 218, 218,
     218, 218, 218, 218, 219, 219, 219, 219, 219, 220, 220, 220, 220, 220, 220, 221,
     221, 221, 221, 221, 222, 222, 222, 222, 222, 222, 223, 223, 223, 223, 223, 223,
     224, 224, 224, 224, 224, 225, 225, 225, 225, 225, 225, 226, 226, 226, 226, 226,
     226, 227, 227, 227, 227, 227, 227, 228, 228, 228, 228, 228, 229, 229, 229, 229,
     229, 229, 230, 230, 230, 230, 230, 230, 231, 231, 231, 231, 231, 231, 232, 232,
     232, 232, 232, 232, 233, 233, 233, 233, 233, 233, 234, 234, 234, 234, 234, 234,
     235, 235, 235, 235, 235, 235, 236, 236, 236, 236, 236, 236, 237, 237, 237, 237,
     237, 237, 238, 238, 238, 238, 238, 238, 239, 239, 239, 239, 239, 239, 240, 240,
     240, 240, 240, 240, 241, 241, 241, 241, 241, 241, 242, 242, 242, 242, 242, 242,
     242, 243, 243, 243, 243, 243, 243, 244, 244, 244, 244, 244, 244, 245, 245, 245,
     245, 245, 245, 246, 246, 246, 246, 246, 246, 246, 247, 247, 247, 247, 247, 247,
     248, 248, 248, 248, 248, 248, 249, 249, 249, 249, 249, 249, 249, 250, 250, 250,
     250, 250, 250, 251, 251, 251, 251, 251, 251, 251, 252, 252, 252, 252, 252, 252,
     253, 253, 253, 253, 253, 253, 253, 254, 254, 254, 254, 254, 254, 255 >>

\* process_grayscale_atlas on a red-channel value v = 0..255 (element v+1):
\* (np.power(np.clip(float32(v)/37.0, 0, 1), 0.7) * 255).astype(uint8).
grayscale_curve_table ==
  <<
     0, 20, 33, 43, 53, 62, 71, 79, 87, 94, 102, 109, 115, 122, 129, 135,
     141, 147, 153, 159, 165, 171, 177, 182, 188, 193, 199, 204, 209, 215, 220, 225,
     230, 235, 240, 245, 250, 255, 255, 255, 255, 255, 255, 255, 255, 255, 255, 255,
     255, 255, 255, 255, 255, 255, 255, 255, 255, 255, 255, 255, 255, 255, 255, 255,
     255, 255, 255, 255, 255, 255, 255, 255, 255, 255, 255, 255, 255, 255, 255, 255,
     255, 255, 255, 255, 255, 255, 255, 255, 255, 255, 255, 255, 255, 255, 255, 255,
     255, 255, 255, 255, 255, 255, 255, 255, 255, 255, 255, 255, 255, 255, 255, 255,
     255, 255, 255, 255, 255, 255, 255, 255, 255, 255, 255, 255, 255, 255, 255, 255,
     255, 255, 255, 255, 255, 255, 255, 255, 255, 255, 255, 255, 255, 255, 255, 255,
     255, 255, 255, 255, 255, 255, 255, 255, 255, 255, 255, 255, 255, 255, 255, 255,
     255, 255, 255, 255, 255, 255, 255, 255, 255, 255, 255, 255, 255, 255, 255, 255,
     255, 255, 255, 255, 255, 255, 255, 255, 255, 255, 255, 255, 255, 255, 255, 255,
     255, 255, 255, 255, 255, 255, 255, 255, 255, 255, 255, 255, 255, 255, 255, 255,
     255, 255, 255, 255, 255, 255, 255, 255, 255, 255, 255, 255, 255, 255, 255, 255,
     255, 255, 255, 255, 255, 255, 255, 255, 255, 255, 255, 255, 255, 255, 255, 255,
     255, 255, 255, 255, 255, 255, 255, 255, 255, 255, 255, 255, 255, 255, 255, 255 >>

\* enhance_for_emissive: [int(((i / 255.0) ** 0.8) * 255) for i in range(256)]
\* (element i+1).
gamma_table ==
  <<
     0, 3, 5, 7, 9, 10, 12, 14, 15, 17, 19, 20, 22, 23, 25, 26,
     27, 29, 30, 31, 33, 34, 35, 37, 38, 39, 41, 42, 43, 44, 46, 47,
     48, 49, 50, 52, 53, 54, 55, 56, 57, 59, 60, 61, 62, 63, 64, 65,
     67, 68, 69, 70, 71, 72, 73, 74, 75, 76, 77, 79, 80, 81, 82, 83,
     84, 85, 86, 87, 88, 89, 90, 91, 92, 93, 94, 95, 96, 97, 98, 99,
     100, 101, 102, 103, 104, 105, 106, 107, 108, 109, 110, 111, 112, 113, 114, 115,
     116, 117, 118, 119, 120, 121, 122, 123, 124, 125, 126, 127, 128, 129, 130, 131,
     132, 132, 133, 134, 135, 136, 137, 138, 139, 140, 141, 142, 143, 144, 145, 145,
     146, 147, 148, 149, 150, 151, 152, 153, 154, 155, 156, 156, 157, 158, 159, 160,
     161, 162, 163, 164, 165, 165, 166, 167, 168, 169, 170, 171, 172, 172, 173, 174,
     175, 176, 177, 178, 179, 180, 180, 181, 182, 183, 184, 185, 186, 186, 187, 188,
     189, 190, 191, 192, 192, 193, 194, 195, 196, 197, 198, 198, 199, 200, 201, 202,
     203, 204, 204, 205, 206, 207, 208, 209, 209, 210, 211, 212, 213, 214, 214, 215,
     216, 217, 218, 219, 219, 220, 221, 222, 223, 224, 224, 225, 226, 227, 228, 229,
     229, 230, 231, 232, 233, 233, 234, 235, 236, 237, 238, 238, 239, 240, 241, 242,
     242, 243, 244, 245, 246, 246, 247, 248, 249, 250, 250, 251, 252, 253, 254, 255 >>

(***************************************************************************)
(* Inputs of the model.                                                    *)
(***************************************************************************)
\* 8-bit RGB triples an atlas pixel may carry after resize.
Palette == { <<0, 0, 0>>, <<20, 24, 28>>, <<200, 200, 200>>, <<255, 255, 255>> }

Cells == (0 .. Height - 1) \X (0 .. Width - 1)

\* np.array(resized_img): one RGB triple per cell.  The grids of the model are
\* the two-colour images (colour a on the even cells, b on the odd cells in
\* row-major order); with two cells these are all grids.
Grids ==
  { [ c \in Cells |-> IF (c[1] * Width + c[2]) % 2 = 0 THEN a ELSE b ] :
    a \in Palette, b \in Palette }

ClusterIds == 0 .. n_clusters - 1

\* Centroid colours a fit may return, in half units.
BaseCentroids ==
  << <<0, 0, 0>>,       <<49, 48, 47>>,    <<96, 96, 96>>,    <<144, 144, 144>>,
     <<0, 0, 256>>,     <<0, 0, 510>>,     <<0, 256, 0>>,     <<0, 510, 0>>,
     <<256, 256, 0>>,   <<510, 510, 0>>,   <<510, 256, 0>>,   <<510, 129, 0>>,
     <<256, 0, 0>>,     <<510, 0, 0>>,     <<401, 400, 400>>, <<510, 510, 510>> >>

\* kmeans.labels_ of the sample pixels (a cluster id per sample pixel).
LabelChoices ==
  { << 0, 1, 2, 3, 4, 5, 6, 7, 8, 9, 10, 11, 12, 13, 14, 15, 0, 0, 6, 12, 12 >>,
    << 15, 14, 13, 12, 11, 10, 9, 8, 7, 6, 5, 4, 3, 2, 1, 0, 12, 6, 0, 12, 0 >>,
    << 1, 2, 3, 4, 5, 6, 7, 8, 9, 10, 11, 12, 13, 14, 15 >>,
    << 5, 5, 2, 9 >> }

\* What KMeans(n_clusters=16, random_state=42, n_init=10).fit_predict returns:
\* the library is not part of the repository, a fit is one of these results.
\* Cluster ids carry no order: id c gets base colour (c*m + 5) mod 16.
\* The fit of a sample with two distinct colours only (12 pixels black, 4 pixels
\* RGB(200,200,200)): every one of the 16 centres is a copy of one of the two
\* colours, and fit_predict labels each pixel with the first centre of its
\* colour, so only two cluster ids occur in labels_.
DegenerateFit ==
  [cluster_centers |-> [c \in ClusterIds |->
                          IF c % 3 = 1 THEN <<0, 0, 0>> ELSE <<400, 400, 400>>],
   labels_ |-> << 1, 1, 1, 0, 1, 1, 1, 0, 1, 1, 1, 0, 1, 1, 1, 0 >>]

FitChoices ==
  { [cluster_centers |-> [c \in ClusterIds |-> BaseCentroids[((c * m + 5) % n_clusters) + 1]],
     labels_ |-> lab] :
    m \in {1, 7}, lab \in LabelChoices }
  \cup { DegenerateFit }

(***************************************************************************)
(* Python helpers.                                                         *)
(***************************************************************************)
RECURSIVE SumSeq(_)
SumSeq(s) == IF s = << >> THEN 0 ELSE Head(s) + SumSeq(Tail(s))

Front(s) == SubSeq(s, 1, Len(s) - 1)

\* Insert e into the sorted sequence t behind every element whose key is not
\* larger: the step of a stable sort.
RECURSIVE InsertByKey(_, _)
InsertByKey(t, e) ==
  IF t = << >> THEN << e >>
  ELSE IF t[Len(t)].key <= e.key THEN Append(t, e)
       ELSE Append(InsertByKey(Front(t), e), t[Len(t)])

\* sorted(s, key=...): ascending by .key, equal keys keep their input order.
RECURSIVE StableSort(_)
StableSort(s) ==
  IF s = << >> THEN << >> ELSE InsertByKey(StableSort(Front(s)), s[Len(s)])

\* Counter(cluster_labels).items(): (cluster_id, count) pairs in order of first
\* occurrence of the id in the label array.
RECURSIVE Counter(_)
Counter(labels) ==
  IF labels = << >> THEN << >>
  ELSE LET rest == Counter(Front(labels))
           l    == labels[Len(labels)]
           at   == { i \in 1 .. Len(rest) : rest[i].cluster_id = l }
       IN  IF at = { }
           THEN Append(rest, [cluster_id |-> l, count |-> 1])
           ELSE [ i \in 1 .. Len(rest) |->
                    IF i \in at THEN [rest[i] EXCEPT !.count = @ + 1] ELSE rest[i] ]

(***************************************************************************)
(* kmeans_atlas_analysis.py: the Brightness Calibrator.                    *)
(***************************************************************************)
\* int(c) for a centroid channel kept in half units.
IntOf(half) == half \div 2

\* brightness = sum(center) / 3, exact: the value is kept as the sum of the
\* three half-unit channels, i.e. in sixths.
brightness(center) == center[1] + center[2] + center[3]

\* Mutant of sorted_clusters: the sort by count runs ascending (no reverse=True).
sorted_clusters_ascending(kmeans) ==
  LET items == Counter(kmeans.labels_)
      keyed == [ i \in 1 .. Len(items) |->
                   [cluster_id |-> items[i].cluster_id, count |-> items[i].count,
                    key |-> items[i].count] ]
  IN  StableSort(keyed)

\* sorted(cluster_counts.items(), key=lambda x: x[1], reverse=True).
sorted_clusters(kmeans) ==
  LET items == Counter(kmeans.labels_)
      keyed == [ i \in 1 .. Len(items) |->
                   [cluster_id |-> items[i].cluster_id, count |-> items[i].count,
                    key |-> 0 - items[i].count] ]
  IN  StableSort(keyed)

\* The dict color_mapping in insertion order (lines 93-112); 'percentage' and
\* 'type' are only printed.
color_mapping_of(kmeans) ==
  LET sc == sorted_clusters(kmeans)
  IN  [ i \in 1 .. Len(sc) |->
          LET center == kmeans.cluster_centers[sc[i].cluster_id]
          IN  [cluster_id |-> sc[i].cluster_id,
               rgb        |-> << IntOf(center[1]), IntOf(center[2]), IntOf(center[3]) >>,
               count      |-> sc[i].count,
               brightness |-> brightness(center),
               key        |-> brightness(center)] ]

\* Mutant of brightness_sorted: the loop iterates color_mapping, which is in
\* order of pixel count, not of brightness.
brightness_unsorted(kmeans) == color_mapping_of(kmeans)

\* sorted(color_mapping.items(), key=lambda x: x[1]['brightness']).
brightness_sorted(kmeans) == StableSort(color_mapping_of(kmeans))

\* Mutant of final_mapping_of: the brightness sort runs descending
\* (reverse=True as in the sort by count).
final_mapping_descending(kmeans) ==
  LET bs    == brightness_sorted(kmeans)
      n     == Len(bs)
      bound == { i \in 1 .. n : i <= Len(cinzano_categories) }
  IN  [ c \in { bs[n + 1 - i].cluster_id : i \in bound } |->
          LET i == CHOOSE j \in bound : bs[n + 1 - j].cluster_id = c
          IN  [rgb         |-> bs[n + 1 - i].rgb,
               category    |-> cinzano_categories[i].category,
               intensity   |-> cinzano_categories[i].intensity,
               ratio_range |-> cinzano_categories[i].ratio_range] ]

\* Mutant of final_mapping_of: the table is indexed one entry too far
\* (cinzano_categories[i + 1]).
final_mapping_off_by_one(kmeans) ==
  LET bs    == brightness_sorted(kmeans)
      bound == { i \in 1 .. Len(bs) : i + 1 <= Len(cinzano_categories) }
  IN  [ c \in { bs[i].cluster_id : i \in bound } |->
          LET i == CHOOSE j \in bound : bs[j].cluster_id = c
          IN  [rgb         |-> bs[i].rgb,
               category    |-> cinzano_categories[i + 1].category,
               intensity   |-> cinzano_categories[i + 1].intensity,
               ratio_range |-> cinzano_categories[i + 1].ratio_range] ]

\* Mutant of final_mapping_of: the clusters are bound to the last entries of
\* the table (the table is aligned at its bright end).
final_mapping_last_entries(kmeans) ==
  LET bs    == brightness_sorted(kmeans)
      bound == { i \in 1 .. Len(bs) : i <= Len(cinzano_categories) }
      off   == Len(cinzano_categories) - Cardinality(bound)
  IN  [ c \in { bs[i].cluster_id : i \in bound } |->
          LET i == CHOOSE j \in bound : bs[j].cluster_id = c
          IN  [rgb         |-> bs[i].rgb,
               category    |-> cinzano_categories[off + i].category,
               intensity   |-> cinzano_categories[off + i].intensity,
               ratio_range |-> cinzano_categories[off + i].ratio_range] ]

\* The loop of lines 143-155: entry i of brightness_sorted gets entry i of the
\* table while i < len(cinzano_categories).
final_mapping_of(kmeans) ==
  LET bs    == brightness_sorted(kmeans)
      bound == { i \in 1 .. Len(bs) : i <= Len(cinzano_categories) }
  IN  [ c \in { bs[i].cluster_id : i \in bound } |->
          LET i == CHOOSE j \in bound : bs[j].cluster_id = c
          IN  [rgb         |-> bs[i].rgb,
               category    |-> cinzano_categories[i].category,
               intensity   |-> cinzano_categories[i].intensity,
               ratio_range |-> cinzano_categories[i].ratio_range] ]

(***************************************************************************)
(* Pillow operations the scripts call (Image.convert, ImageEnhance,        *)
(* Image.point), on a grid of 8-bit values.                                *)
(***************************************************************************)
\* Image.convert('L') of an RGB pixel: ITU-R 601-2 luma, rounded.
LumaOf(rgb) == (rgb[1] * 19595 + rgb[2] * 38470 + rgb[3] * 7471 + 32768) \div 65536

\* Image.convert('RGB') of an L image: the value on all three channels.
ToRGB(img) == [ c \in DOMAIN img |-> << img[c], img[c], img[c] >> ]

RECURSIVE SumOver(_, _)
SumOver(img, cells) ==
  IF cells = { } THEN 0
  ELSE LET c == CHOOSE d \in cells : TRUE IN img[c] + SumOver(img, cells \ {c})

\* int(ImageStat.Stat(image.convert("L")).mean[0] + 0.5) of an L image.
MeanOf(img) ==
  LET n == Cardinality(DOMAIN img)
  IN  (2 * SumOver(img, DOMAIN img) + n) \div (2 * n)

\* Mutant of Blend: the extrapolated value is stored in 8 bits without
\* clipping (it wraps modulo 256).
Blend_wrapping(d, v, num, den) == ((den * d + num * (v - d)) \div den) % 256

\* Mutant of Blend: the extrapolated value is stored without clipping.
Blend_unclipped(d, v, num, den) == (den * d + num * (v - d)) \div den

\* Image.blend(degenerate, image, factor) on one pixel, factor = num/den > 1:
\* the extrapolated value is clipped to 0..255 and truncated.  The factor is
\* taken exactly (Pillow computes in single precision).
Blend(d, v, num, den) ==
  LET t == den * d + num * (v - d)
  IN  IF t <= 0 THEN 0 ELSE IF t >= 255 * den THEN 255 ELSE t \div den

\* Mutant of Contrast: the blend with the mean image is stored unclipped.
Contrast_unclipped(img, num, den) ==
  LET mean == MeanOf(img)
  IN  [ c \in DOMAIN img |-> Blend_unclipped(mean, img[c], num, den) ]

\* ImageEnhance.Contrast(img).enhance(num/den): blend with the solid mean image.
Contrast(img, num, den) ==
  LET mean == MeanOf(img)
  IN  [ c \in DOMAIN img |-> Blend(mean, img[c], num, den) ]

\* ImageEnhance.Brightness(img).enhance(num/den): blend with the black image.
Brightness(img, num, den) == [ c \in DOMAIN img |-> Blend(0, img[c], num, den) ]

(***************************************************************************)
(* decode_atlas_lightmap_kmeans.py: the classified remapper.               *)
(***************************************************************************)
\* Squared Euclidean distance of a pixel to a centroid, both in half units.
Dist2(pixel_rgb, center) ==
  (2 * pixel_rgb[1] - center[1]) * (2 * pixel_rgb[1] - center[1])
  + (2 * pixel_rgb[2] - center[2]) * (2 * pixel_rgb[2] - center[2])
  + (2 * pixel_rgb[3] - center[3]) * (2 * pixel_rgb[3] - center[3])

\* Mutant of find_closest_cluster: of several centroids at the minimal
\* distance the last one wins.
find_closest_cluster_last(pixel_rgb, kmeans_model) ==
  CHOOSE c \in ClusterIds :
    \A d \in ClusterIds :
      \/ Dist2(pixel_rgb, kmeans_model.cluster_centers[c])
           < Dist2(pixel_rgb, kmeans_model.cluster_centers[d])
      \/ /\ Dist2(pixel_rgb, kmeans_model.cluster_centers[c])
              = Dist2(pixel_rgb, kmeans_model.cluster_centers[d])
         /\ c >= d

\* kmeans_model.predict([pixel_rgb])[0]: the first centroid at minimal distance.
find_closest_cluster(pixel_rgb, kmeans_model) ==
  CHOOSE c \in ClusterIds :
    \A d \in ClusterIds :
      \/ Dist2(pixel_rgb, kmeans_model.cluster_centers[c])
           < Dist2(pixel_rgb, kmeans_model.cluster_centers[d])
      \/ /\ Dist2(pixel_rgb, kmeans_model.cluster_centers[c])
              = Dist2(pixel_rgb, kmeans_model.cluster_centers[d])
         /\ c <= d

\* Mutant of RemapPixel: the pixel gets the brightness of its cluster's colour
\* ('rgb') instead of the calibrated intensity, with no border filter.
RemapPixel_ClusterBrightness(pixel_rgb, color_mapping, kmeans_model) ==
  LET cluster_id == find_closest_cluster(pixel_rgb, kmeans_model)
  IN  IF cluster_id \in DOMAIN color_mapping
      THEN (color_mapping[cluster_id].rgb[1] + color_mapping[cluster_id].rgb[2]
            + color_mapping[cluster_id].rgb[3]) \div 3
      ELSE 0

\* Mutant of RemapPixel: an unmapped cluster defaults to white.
RemapPixel_UnmappedWhite(pixel_rgb, color_mapping, kmeans_model) ==
  LET cluster_id == find_closest_cluster(pixel_rgb, kmeans_model)
  IN  IF cluster_id \in DOMAIN color_mapping
      THEN IF color_mapping[cluster_id].category = BorderCategory
           THEN 0
           ELSE color_mapping[cluster_id].intensity
      ELSE 255

\* Lines 121-132: the intensity written for one pixel.
RemapPixel(pixel_rgb, color_mapping, kmeans_model) ==
  LET cluster_id == find_closest_cluster(pixel_rgb, kmeans_model)
  IN  IF cluster_id \in DOMAIN color_mapping
      THEN IF color_mapping[cluster_id].category = BorderCategory
           THEN 0
           ELSE color_mapping[cluster_id].intensity
      ELSE 0

(***************************************************************************)
(* decode_atlas_lightmap.py: the direct decoder.                           *)
(***************************************************************************)
\* sum(pixel_rgb) over a tuple of np.uint8 scalars.  With NumPy 1 promotion
\* the Python int 0 makes the running sum an int64; with NumPy 2 promotion
\* (weak Python scalars) the sum stays uint8 and wraps modulo 256.
SumUint8(pixel_rgb, weak) ==
  IF weak THEN (pixel_rgb[1] + pixel_rgb[2] + pixel_rgb[3]) % 256
  ELSE pixel_rgb[1] + pixel_rgb[2] + pixel_rgb[3]

\* brightness_to_intensity(brightness) for brightness = sum3 / 3.
brightness_to_intensity(sum3) == brightness_to_intensity_table[sum3 + 1]

\* brightness = sum(pixel_rgb) / 3; intensity = brightness_to_intensity(brightness).
process_grayscale_pixel(pixel_rgb, weak) ==
  brightness_to_intensity(SumUint8(pixel_rgb, weak))

(***************************************************************************)
(* process_grayscale_atlas.py: the direct-channel remapper.                *)
(***************************************************************************)
\* Mutant of GrayscaleLightmap: the green channel is read (img_array[:, :, 1]).
GrayscaleLightmap_green(img_arr) ==
  [ c \in DOMAIN img_arr |-> grayscale_curve_table[img_arr[c][2] + 1] ]

\* Lines 62-78 on the whole array: the red channel through the power curve.
GrayscaleLightmap(img_arr) ==
  [ c \in DOMAIN img_arr |-> grayscale_curve_table[img_arr[c][1] + 1] ]

(***************************************************************************)
(* process_nightlights.py: enhance_for_emissive, stage by stage.           *)
(***************************************************************************)
enhance_for_emissive(img) ==
  LET grayscale       == [ c \in DOMAIN img |-> LumaOf(img[c]) ]
      contrasted      == Contrast(grayscale, 2, 1)
      brightened      == Brightness(contrasted, 3, 2)
      gamma_corrected == [ c \in DOMAIN img |-> gamma_table[brightened[c] + 1] ]
  IN  [grayscale |-> grayscale, contrasted |-> contrasted,
       brightened |-> brightened, gamma_corrected |-> gamma_corrected,
       rgb_enhanced |-> ToRGB(gamma_corrected)]

(***************************************************************************)
(* process_heatmap.py: lines 63-78, stage by stage.                        *)
(***************************************************************************)
\* np.max(img_array, axis=2) on one pixel.
MaxChannel(rgb) ==
  IF rgb[1] >= rgb[2] /\ rgb[1] >= rgb[3] THEN rgb[1]
  ELSE IF rgb[2] >= rgb[3] THEN rgb[2] ELSE rgb[3]

process_heatmap_tone(img) ==
  LET intensity_array == [ c \in DOMAIN img |-> MaxChannel(img[c]) ]
      contrasted      == Contrast(intensity_array, 5, 2)
      brightened      == Brightness(contrasted, 9, 5)
  IN  [intensity_array |-> intensity_array, contrasted |-> contrasted,
       brightened |-> brightened, final_img |-> ToRGB(brightened)]

(***************************************************************************)
(* State.                                                                  *)
(***************************************************************************)
\* A file or an optional value is << >> (missing, None) or << content >>.
VARIABLES
  heatmap_data,              \* names of the atlas files present in heatmap_data/
  atlas,                     \* the RGB grid an atlas file resizes to (both files
                             \* are renderings of one atlas: one content)
  kmeans_fit,                \* what KMeans.fit_predict computes on the atlas sample
  kmeans_color_mapping_pkl,  \* the pickled (mapping, kmeans)
  public_js,                 \* ../public/js/: file name -> file
  processed_textures,        \* processed_textures/: names of the written files
  script,                    \* the script that is running, or "none"
  pc,                        \* its position
  np_weak,                   \* NumPy 2 scalar promotion in this run
  kmeans,                    \* the fitted / unpickled KMeans model
  mapping,                   \* final_mapping / the unpickled color_mapping
  img_array,                 \* np.array(resized_img)
  lightmap_array,            \* the lightmap under construction
  y, x,                      \* the remap loop's counters
  tone,                      \* the stages of enhance_for_emissive / process_heatmap
  final_img,                 \* the image handed to save()
  wrote,                     \* this run has saved its output file
  result,                    \* the return value of the script's function
  light_pollution_data,      \* names of the files present in light_pollution_data/
  incomplete,                \* the files on disk that hold only part of a response
  url_i,                     \* the downloader's position in its list of links
  chunks,                    \* chunks the running download_file has written
  tried,                     \* the download_file calls of this run: name and result
  df_result,                 \* what the running download_file returns
  downloaded_files,          \* download_lorenz_heatmaps' list
  nasa_nightlights,          \* number of PNG files in nasa_nightlights/
  texture_input,             \* texture name -> the input file it was made from
  file_i, size_i,            \* process_all_images' position: file, size (0 = main)
  all_results                \* process_all_images' list

vars ==
  << heatmap_data, atlas, kmeans_fit, kmeans_color_mapping_pkl, public_js,
     processed_textures, script, pc, np_weak, kmeans, mapping, img_array,
     lightmap_array, y, x, tone, final_img, wrote, result,
     light_pollution_data, incomplete, url_i, chunks, tried, df_result,
     downloaded_files, nasa_nightlights, texture_input, file_i, size_i,
     all_results >>

files == << heatmap_data, atlas, kmeans_fit >>
download_dirs == << light_pollution_data, incomplete >>
download_locals == << url_i, chunks, tried, df_result, downloaded_files >>
batch_files == << nasa_nightlights, texture_input >>
batch_locals == << file_i, size_i, all_results >>
others == << download_dirs, download_locals, batch_files, batch_locals >>
outputs == << kmeans_color_mapping_pkl, public_js, processed_textures >>
locals == << np_weak, kmeans, mapping, img_array, lightmap_array, y, x, tone, final_img >>

LOW3 == "world2024_low3.png"
WORLD_B == "world2024B.png"
CINZANO_LIGHTMAP == "cinzano_lightmap.png"
ATLAS_LIGHTMAP == "atlas_lightmap.png"
NIGHT_TEXTURE == "light_pollution_texture_2000x1000.png"
HEATMAP_TEXTURE == "light_pollution_heatmap.png"

\* np.zeros((height, width), dtype=np.uint8)
Zeros == [ c \in Cells |-> 0 ]

\* process_nightlights.py, lines 124-128 and line 50's defaults.
sizes == << << 2000, 1000 >>, << 1024, 512 >>, << 512, 256 >> >>

\* process_nightlights.py, line 78: the output name depends on the size only.
output_filename(target_width, target_height) ==
  CASE target_width = 2000 /\ target_height = 1000 -> NIGHT_TEXTURE
    [] target_width = 1024 /\ target_height = 512 -> "light_pollution_texture_1024x512.png"
    [] target_width = 512 /\ target_height = 256 -> "light_pollution_texture_512x256.png"

TextureNames == { output_filename(sizes[i][1], sizes[i][2]) : i \in DOMAIN sizes }

\* No script is running and nothing has been written.
InitState ==
  /\ kmeans_color_mapping_pkl = << >>
  /\ public_js = [ f \in { CINZANO_LIGHTMAP, ATLAS_LIGHTMAP, HEATMAP_TEXTURE } |-> << >> ]
  /\ processed_textures = { }
  /\ script = "none"
  /\ pc = "idle"
  /\ np_weak = FALSE
  /\ kmeans = << >>
  /\ mapping = << >>
  /\ img_array = << >>
  /\ lightmap_array = Zeros
  /\ y = 0
  /\ x = 0
  /\ tone = << >>
  /\ final_img = << >>
  /\ wrote = FALSE
  /\ result = "pending"
  /\ light_pollution_data = { }
  /\ incomplete = { }
  /\ url_i = 0
  /\ chunks = 0
  /\ tried = << >>
  /\ df_result = "pending"
  /\ downloaded_files = << >>
  /\ texture_input = [ f \in TextureNames |-> 0 ]
  /\ file_i = 0
  /\ size_i = 0
  /\ all_results = << >>

\* The atlas files are in place (or not); the decoders and processors run.
Init ==
  /\ heatmap_data \in SUBSET { LOW3, WORLD_B }
  /\ atlas \in Grids
  /\ kmeans_fit \in FitChoices
  /\ nasa_nightlights = 0
  /\ InitState

\* The function returns `r`.
Return(r) == /\ result' = r
             /\ pc' = "done"

(***************************************************************************)
(* kmeans_atlas_analysis.py                                                *)
(***************************************************************************)
\* main() calls analyze_atlas_with_kmeans(): lines 48-54.
an_Start ==
  /\ script = "none"
  /\ script' = "analysis"
  /\ IF LOW3 \notin heatmap_data
     THEN Return("None")
     ELSE /\ pc' = "open"
          /\ UNCHANGED result
  /\ UNCHANGED << files, others, outputs, locals, wrote >>

\* Mutant of an_Fit: KMeans without random_state; each fit may end in a
\* different local optimum.
an_Fit_unseeded ==
  /\ script = "analysis"
  /\ pc = "open"
  /\ kmeans' \in { << f >> : f \in FitChoices }
  /\ pc' = "fitted"
  /\ UNCHANGED << files, others, outputs, script, np_weak, mapping, img_array,
                  lightmap_array, y, x, tone, final_img, wrote, result >>

\* Lines 57-80: open, sample, fit.
an_Fit ==
  /\ script = "analysis"
  /\ pc = "open"
  /\ kmeans' = << kmeans_fit >>
  /\ pc' = "fitted"
  /\ UNCHANGED << files, others, outputs, script, np_weak, mapping, img_array,
                  lightmap_array, y, x, tone, final_img, wrote, result >>

\* Lines 82-157: count, sort by brightness, bind to the scale, return.
an_Calibrate ==
  /\ script = "analysis"
  /\ pc = "fitted"
  /\ mapping' = << final_mapping_of(kmeans[1]) >>
  /\ result' = "mapping"
  /\ pc' = "returned"
  /\ UNCHANGED << files, others, outputs, script, np_weak, kmeans, img_array,
                  lightmap_array, y, x, tone, final_img, wrote >>

\* Mutant of an_Dump: main opens the mapping file for writing before it looks
\* at the result, which empties an existing file when the analysis failed.
an_Dump_open_first ==
  /\ script = "analysis"
  /\ \/ /\ pc = "returned"
        /\ kmeans_color_mapping_pkl' = << [mapping |-> mapping[1], kmeans |-> kmeans[1]] >>
        /\ pc' = "done"
     \/ /\ pc = "done"
        /\ result = "None"
        /\ ~wrote
        /\ kmeans_color_mapping_pkl' = << >>
        /\ pc' = pc
  /\ wrote' = TRUE
  /\ UNCHANGED << files, others, public_js, processed_textures, script, locals, result >>

\* main(), lines 188-199: pickle.dump((mapping, kmeans)).
an_Dump ==
  /\ script = "analysis"
  /\ pc = "returned"
  /\ kmeans_color_mapping_pkl' = << [mapping |-> mapping[1], kmeans |-> kmeans[1]] >>
  /\ wrote' = TRUE
  /\ pc' = "done"
  /\ UNCHANGED << files, others, public_js, processed_textures, script, locals, result >>

(***************************************************************************)
(* decode_atlas_lightmap_kmeans.py                                         *)
(***************************************************************************)
\* Lines 71-86: the input check and load_kmeans_mapping().
dk_Start ==
  /\ script = "none"
  /\ script' = "decode_kmeans"
  /\ IF LOW3 \notin heatmap_data \/ kmeans_color_mapping_pkl = << >>
     THEN /\ Return("None")
          /\ UNCHANGED << kmeans, mapping >>
     ELSE /\ mapping' = << kmeans_color_mapping_pkl[1].mapping >>
          /\ kmeans' = << kmeans_color_mapping_pkl[1].kmeans >>
          /\ pc' = "open"
          /\ UNCHANGED result
  /\ UNCHANGED << files, others, outputs, np_weak, img_array, lightmap_array, y, x,
                  tone, final_img, wrote >>

\* Lines 89-108 (and 83-102 of the direct decoder): open, resize, zero lightmap.
OpenAtlas(s) ==
  /\ script = s
  /\ pc = "open"
  /\ img_array' = << atlas >>
  /\ lightmap_array' = Zeros
  /\ y' = 0
  /\ x' = 0
  /\ pc' = "loop"
  /\ UNCHANGED << files, others, outputs, script, np_weak, kmeans, mapping, tone,
                  final_img, wrote, result >>

dk_Open == OpenAtlas("decode_kmeans")

\* The loops `for y in range(height): for x in range(width)` advance one cell.
NextCell ==
  IF x + 1 < Width THEN /\ x' = x + 1
                        /\ y' = y
  ELSE /\ x' = 0
       /\ y' = y + 1

\* Mutant of dk_Pixel: the intensity is also stored back into the input grid.
dk_Pixel_inplace ==
  /\ script = "decode_kmeans"
  /\ pc = "loop"
  /\ y < Height
  /\ lightmap_array' =
       [lightmap_array EXCEPT ![<<y, x>>] =
          RemapPixel(img_array[1][<<y, x>>], mapping[1], kmeans[1])]
  /\ img_array' =
       << [img_array[1] EXCEPT ![<<y, x>>] =
             << RemapPixel(img_array[1][<<y, x>>], mapping[1], kmeans[1]),
                RemapPixel(img_array[1][<<y, x>>], mapping[1], kmeans[1]),
                RemapPixel(img_array[1][<<y, x>>], mapping[1], kmeans[1]) >>] >>
  /\ NextCell
  /\ UNCHANGED << files, others, outputs, script, pc, np_weak, kmeans, mapping,
                  tone, final_img, wrote, result >>

\* Lines 118-134: one pixel of the remap loop.
dk_Pixel ==
  /\ script = "decode_kmeans"
  /\ pc = "loop"
  /\ y < Height
  /\ lightmap_array' =
       [lightmap_array EXCEPT ![<<y, x>>] =
          RemapPixel(img_array[1][<<y, x>>], mapping[1], kmeans[1])]
  /\ NextCell
  /\ UNCHANGED << files, others, outputs, script, pc, np_weak, kmeans, mapping,
                  img_array, tone, final_img, wrote, result >>

\* Mutant of Enhance: the contrast step stores its result back into the
\* lightmap array.
Enhance_inplace(s, num, den) ==
  /\ script = s
  /\ pc = "loop"
  /\ y = Height
  /\ lightmap_array' = Contrast(lightmap_array, num, den)
  /\ final_img' = << ToRGB(Contrast(lightmap_array, num, den)) >>
  /\ pc' = "save"
  /\ UNCHANGED << files, others, outputs, script, np_weak, kmeans, mapping, img_array,
                  y, x, tone, wrote, result >>

\* Mutant of Enhance: the tone step does not wait for the end of the loop.
Enhance_early(s, num, den) ==
  /\ script = s
  /\ pc = "loop"
  /\ final_img' = << ToRGB(Contrast(lightmap_array, num, den)) >>
  /\ pc' = "save"
  /\ UNCHANGED << files, others, outputs, script, np_weak, kmeans, mapping, img_array,
                  lightmap_array, y, x, tone, wrote, result >>

\* After the loop: Image.fromarray, Contrast.enhance(num/den), convert('RGB').
Enhance(s, num, den) ==
  /\ script = s
  /\ pc = "loop"
  /\ y = Height
  /\ final_img' = << ToRGB(Contrast(lightmap_array, num, den)) >>
  /\ pc' = "save"
  /\ UNCHANGED << files, others, outputs, script, np_weak, kmeans, mapping, img_array,
                  lightmap_array, y, x, tone, wrote, result >>

\* Lines 138-146.
dk_Enhance == Enhance("decode_kmeans", 13, 10)

\* Mutant of Save: the save also runs inside the remap loop, on the lightmap
\* filled so far.
Save_in_loop(s, name) ==
  /\ script = s
  /\ \/ /\ pc = "save"
        /\ public_js' = [public_js EXCEPT ![name] = final_img]
        /\ pc' = "stats"
     \/ /\ pc = "loop"
        /\ y < Height
        /\ ~wrote
        /\ public_js' = [public_js EXCEPT ![name] = << ToRGB(lightmap_array) >>]
        /\ pc' = pc
  /\ wrote' = TRUE
  /\ UNCHANGED << files, others, kmeans_color_mapping_pkl, processed_textures, script,
                  locals, result >>

\* final_img.save(output_file, "PNG", optimize=True).
Save(s, name) ==
  /\ script = s
  /\ pc = "save"
  /\ public_js' = [public_js EXCEPT ![name] = final_img]
  /\ wrote' = TRUE
  /\ pc' = "stats"
  /\ UNCHANGED << files, others, kmeans_color_mapping_pkl, processed_textures, script,
                  locals, result >>

\* Lines 148-150.
dk_Save == Save("decode_kmeans", CINZANO_LIGHTMAP)

\* The statistics after the save, then `return output_file`.
Stats(s, name) ==
  /\ script = s
  /\ pc = "stats"
  /\ Return(name)
  /\ UNCHANGED << files, others, outputs, script, locals, wrote >>

\* Lines 152-178.
dk_Stats == Stats("decode_kmeans", CINZANO_LIGHTMAP)

(***************************************************************************)
(* decode_atlas_lightmap.py                                                *)
(***************************************************************************)
\* Lines 72-80.  The NumPy in use fixes the promotion rule of the run.
dd_Start ==
  /\ script = "none"
  /\ script' = "decode_direct"
  /\ IF LOW3 \notin heatmap_data
     THEN /\ Return("None")
          /\ UNCHANGED np_weak
     ELSE /\ np_weak' \in BOOLEAN
          /\ pc' = "open"
          /\ UNCHANGED result
  /\ UNCHANGED << files, others, outputs, kmeans, mapping, img_array, lightmap_array,
                  y, x, tone, final_img, wrote >>

dd_Open == OpenAtlas("decode_direct")

\* Lines 112-118: one pixel of the remap loop.
dd_Pixel ==
  /\ script = "decode_direct"
  /\ pc = "loop"
  /\ y < Height
  /\ lightmap_array' =
       [lightmap_array EXCEPT ![<<y, x>>] =
          process_grayscale_pixel(img_array[1][<<y, x>>], np_weak)]
  /\ NextCell
  /\ UNCHANGED << files, others, outputs, script, pc, np_weak, kmeans, mapping,
                  img_array, tone, final_img, wrote, result >>

\* Lines 122-130.
dd_Enhance == Enhance("decode_direct", 3, 2)

\* Lines 132-134.
dd_Save == Save("decode_direct", CINZANO_LIGHTMAP)

\* Lines 136-144.
dd_Stats == Stats("decode_direct", CINZANO_LIGHTMAP)

(***************************************************************************)
(* process_grayscale_atlas.py                                              *)
(***************************************************************************)
\* Lines 32-40.
gp_Start ==
  /\ script = "none"
  /\ script' = "grayscale"
  /\ IF WORLD_B \notin heatmap_data
     THEN Return("None")
     ELSE /\ pc' = "open"
          /\ UNCHANGED result
  /\ UNCHANGED << files, others, outputs, locals, wrote >>

\* Lines 43-78: open, resize, and the vectorised remap of the whole array.
gp_Remap ==
  /\ script = "grayscale"
  /\ pc = "open"
  /\ img_array' = << atlas >>
  /\ lightmap_array' = GrayscaleLightmap(atlas)
  /\ y' = Height
  /\ x' = 0
  /\ pc' = "loop"
  /\ UNCHANGED << files, others, outputs, script, np_weak, kmeans, mapping, tone,
                  final_img, wrote, result >>

\* Lines 82-90.
gp_Enhance == Enhance("grayscale", 6, 5)

\* Lines 92-94.
gp_Save == Save("grayscale", ATLAS_LIGHTMAP)

\* Lines 96-109.
gp_Stats == Stats("grayscale", ATLAS_LIGHTMAP)

(***************************************************************************)
(* process_nightlights.py: process_image on one input file.                *)
(***************************************************************************)
\* Lines 54-72: open and resize a night lights image.
nl_Start ==
  /\ script = "none"
  /\ script' = "nightlights"
  /\ img_array' \in { << g >> : g \in Grids }
  /\ pc' = "tone"
  /\ UNCHANGED << files, others, outputs, np_weak, kmeans, mapping, lightmap_array,
                  y, x, tone, final_img, wrote, result >>

\* Line 75: enhance_for_emissive(resized_img).
nl_Enhance ==
  /\ script = "nightlights"
  /\ pc = "tone"
  /\ tone' = << enhance_for_emissive(img_array[1]) >>
  /\ final_img' = << enhance_for_emissive(img_array[1]).rgb_enhanced >>
  /\ pc' = "save"
  /\ UNCHANGED << files, others, outputs, script, np_weak, kmeans, mapping, img_array,
                  lightmap_array, y, x, wrote, result >>

\* Lines 77-85: save the texture and return its path.
nl_Save ==
  /\ script = "nightlights"
  /\ pc = "save"
  /\ processed_textures' = processed_textures \cup { NIGHT_TEXTURE }
  /\ wrote' = TRUE
  /\ Return(NIGHT_TEXTURE)
  /\ UNCHANGED << files, others, kmeans_color_mapping_pkl, public_js, script, locals >>

(***************************************************************************)
(* process_heatmap.py                                                      *)
(***************************************************************************)
\* Lines 30-38.
hm_Start ==
  /\ script = "none"
  /\ script' = "heatmap"
  /\ IF WORLD_B \notin heatmap_data
     THEN Return("None")
     ELSE /\ pc' = "open"
          /\ UNCHANGED result
  /\ UNCHANGED << files, others, outputs, locals, wrote >>

\* Lines 42-59: open, resize, np.array.
hm_Open ==
  /\ script = "heatmap"
  /\ pc = "open"
  /\ img_array' = << atlas >>
  /\ pc' = "tone"
  /\ UNCHANGED << files, others, outputs, script, np_weak, kmeans, mapping,
                  lightmap_array, y, x, tone, final_img, wrote, result >>

\* Lines 63-78: maximum channel, contrast 2.5, brightness 1.8, convert('RGB').
hm_Enhance ==
  /\ script = "heatmap"
  /\ pc = "tone"
  /\ tone' = << process_heatmap_tone(img_array[1]) >>
  /\ final_img' = << process_heatmap_tone(img_array[1]).final_img >>
  /\ pc' = "save"
  /\ UNCHANGED << files, others, outputs, script, np_weak, kmeans, mapping, img_array,
                  lightmap_array, y, x, wrote, result >>

\* Lines 81-87: save and return the path.
hm_Save ==
  /\ script = "heatmap"
  /\ pc = "save"
  /\ public_js' = [public_js EXCEPT ![HEATMAP_TEXTURE] = final_img]
  /\ wrote' = TRUE
  /\ Return(HEATMAP_TEXTURE)
  /\ UNCHANGED << files, others, kmeans_color_mapping_pkl, processed_textures, script,
                  locals >>

(***************************************************************************)
(* download_heatmap_data.py and download_light_pollution.py                *)
(***************************************************************************)
DOWNLOAD_HEATMAP == "download_heatmap_data"
DOWNLOAD_LIGHT_POLLUTION == "download_light_pollution"
Downloaders == { DOWNLOAD_HEATMAP, DOWNLOAD_LIGHT_POLLUTION }

\* download_heatmap_data.py, lines 69-80: Path(url).name of each candidate.
map_urls ==
  << "world2024B.png", "world2024B_low3.png", "world2020B.png",
     "world2020B_low3.png", "world2016B.png", "world2016B_low3.png" >>

\* download_light_pollution.py, lines 290-300: the links a source function
\* found that carry one of the keywords; the second has the fallback name of
\* line 168.
links == << "world_atlas.tif", "light_pollution_data.tif" >>

\* The list the running downloader walks.
Candidates == IF script = DOWNLOAD_HEATMAP THEN map_urls ELSE links

\* filepath = self.download_dir / filename
filepath == Candidates[url_i]

\* self.download_dir of the running downloader.
download_dir ==
  IF script = DOWNLOAD_HEATMAP THEN heatmap_data ELSE light_pollution_data

\* The running downloader's directory becomes d.
SetDownloadDir(d) ==
  IF script = DOWNLOAD_HEATMAP
  THEN heatmap_data' = d /\ UNCHANGED light_pollution_data
  ELSE light_pollution_data' = d /\ UNCHANGED heatmap_data

\* The downloader calls download_file on its first link.
StartDownload(s) ==
  /\ script = "none"
  /\ script' = s
  /\ url_i' = 1
  /\ chunks' = 0
  /\ tried' = << >>
  /\ df_result' = "pending"
  /\ downloaded_files' = << >>
  /\ pc' = "df_call"
  /\ UNCHANGED << files, download_dirs, batch_files, batch_locals, outputs,
                  locals, wrote, result >>

\* download_heatmap_data.py, lines 96-103 and 62-84.
dh_Start == StartDownload(DOWNLOAD_HEATMAP)

\* download_light_pollution.py, lines 274-303.
lp_Start == StartDownload(DOWNLOAD_LIGHT_POLLUTION)

\* download_file, lines 28-30 (172-174): the file is there; no request.
df_Exists ==
  /\ script \in Downloaders
  /\ pc = "df_call"
  /\ filepath \in download_dir
  /\ df_result' = filepath
  /\ tried' = Append(tried, [name |-> filepath, request |-> FALSE, result |-> filepath])
  /\ pc' = "df_return"
  /\ UNCHANGED << files, download_dirs, url_i, chunks, downloaded_files,
                  batch_files, batch_locals, outputs, locals, wrote, result, script >>

\* Lines 35-36 (179-180): session.get(url, stream=True) is issued.
df_Get ==
  /\ script \in Downloaders
  /\ pc = "df_call"
  /\ filepath \notin download_dir
  /\ pc' = "df_get"
  /\ UNCHANGED << files, download_dirs, download_locals, batch_files,
                  batch_locals, outputs, locals, wrote, result, script >>

\* download_light_pollution.py, lines 182-193 of download_file: a login redirect or an HTML
\* answer for a GeoTIFF; the function returns None before it opens the file.
df_Refuse ==
  /\ script = DOWNLOAD_LIGHT_POLLUTION
  /\ pc = "df_get"
  /\ df_result' = "None"
  /\ tried' = Append(tried, [name |-> filepath, request |-> TRUE, result |-> "None"])
  /\ pc' = "df_return"
  /\ UNCHANGED << files, download_dirs, url_i, chunks, downloaded_files,
                  batch_files, batch_locals, outputs, locals, wrote, result, script >>

\* Lines 36-41 (180-197): the response is good; open(filepath, 'wb') creates
\* the empty file.
df_Open ==
  /\ script \in Downloaders
  /\ pc = "df_get"
  /\ SetDownloadDir(download_dir \cup { filepath })
  /\ incomplete' = incomplete \cup { filepath }
  /\ chunks' = 0
  /\ pc' = "df_write"
  /\ UNCHANGED << atlas, kmeans_fit, url_i, tried, df_result, downloaded_files,
                  batch_files, batch_locals, outputs, locals, wrote, result, script >>

\* Lines 43-46 (199-202): f.write(chunk).
df_Write ==
  /\ script \in Downloaders
  /\ pc = "df_write"
  /\ chunks < MaxChunks
  /\ chunks' = chunks + 1
  /\ UNCHANGED << files, download_dirs, url_i, tried, df_result,
                  downloaded_files, batch_files, batch_locals, outputs, locals,
                  wrote, result, script, pc >>

\* Lines 41-50 (197-206): the response is exhausted and the `with` block
\* closes the file.
df_Close ==
  /\ script \in Downloaders
  /\ pc = "df_write"
  /\ incomplete' = incomplete \ { filepath }
  /\ pc' = "df_stat"
  /\ UNCHANGED << files, light_pollution_data, download_locals, batch_files,
                  batch_locals, outputs, locals, wrote, result, script >>

\* Lines 52-54 (208-210): report and return filepath.
df_Return ==
  /\ script \in Downloaders
  /\ pc = "df_stat"
  /\ df_result' = filepath
  /\ tried' = Append(tried, [name |-> filepath, request |-> TRUE, result |-> filepath])
  /\ pc' = "df_return"
  /\ UNCHANGED << files, download_dirs, url_i, chunks, downloaded_files,
                  batch_files, batch_locals, outputs, locals, wrote, result, script >>

\* Mutant of df_Except: the handler returns None and leaves the file.
df_Except_keep ==
  /\ script \in Downloaders
  /\ pc \in { "df_get", "df_write", "df_stat" }
  /\ df_result' = "None"
  /\ tried' = Append(tried, [name |-> filepath, request |-> TRUE, result |-> "None"])
  /\ pc' = "df_return"
  /\ UNCHANGED << files, download_dirs, url_i, chunks, downloaded_files,
                  batch_files, batch_locals, outputs, locals, wrote, result, script >>

\* Lines 56-60 (212-216): an exception of the request, of raise_for_status,
\* of a read or a write, or of the report: unlink the file if it exists,
\* return None.
df_Except ==
  /\ script \in Downloaders
  /\ pc \in { "df_get", "df_write", "df_stat" }
  /\ SetDownloadDir(download_dir \ { filepath })
  /\ incomplete' = incomplete \ { filepath }
  /\ df_result' = "None"
  /\ tried' = Append(tried, [name |-> filepath, request |-> TRUE, result |-> "None"])
  /\ pc' = "df_return"
  /\ UNCHANGED << atlas, kmeans_fit, url_i, chunks, downloaded_files,
                  batch_files, batch_locals, outputs, locals, wrote, result, script >>

\* The caller moves to its next link and calls download_file again.
NextLink ==
  /\ url_i' = url_i + 1
  /\ chunks' = 0
  /\ df_result' = "pending"
  /\ pc' = "df_call"
  /\ UNCHANGED << downloaded_files, result >>

\* Mutant of dh_Result: the loop has no break.
dh_Result_no_break ==
  /\ script = DOWNLOAD_HEATMAP
  /\ pc = "df_return"
  /\ downloaded_files' =
       IF df_result # "None" THEN Append(downloaded_files, df_result)
       ELSE downloaded_files
  /\ IF url_i < Len(map_urls)
     THEN /\ url_i' = url_i + 1
          /\ chunks' = 0
          /\ df_result' = "pending"
          /\ pc' = "df_call"
          /\ UNCHANGED result
     ELSE /\ Return(IF downloaded_files' = << >> THEN "None" ELSE downloaded_files'[1])
          /\ UNCHANGED << url_i, chunks, df_result >>
  /\ UNCHANGED << files, download_dirs, tried, batch_files, batch_locals,
                  outputs, locals, wrote, script >>

\* download_heatmap_data.py, lines 85-91 and 105-115: the first success is
\* appended and ends the loop; main returns results[0], or None.
dh_Result ==
  /\ script = DOWNLOAD_HEATMAP
  /\ pc = "df_return"
  /\ IF df_result # "None"
     THEN /\ downloaded_files' = Append(downloaded_files, df_result)
          /\ Return(df_result)
          /\ UNCHANGED << url_i, chunks, df_result >>
     ELSE IF url_i < Len(map_urls)
          THEN NextLink
          ELSE /\ Return("None")
               /\ UNCHANGED << url_i, chunks, df_result, downloaded_files >>
  /\ UNCHANGED << files, download_dirs, tried, batch_files, batch_locals,
                  outputs, locals, wrote, script >>

SAMPLE_TEXTURE == "sample_light_pollution.png"

\* download_light_pollution.py, lines 300-325: the first success ends the
\* loop over the links; when every link failed, main calls
\* create_sample_texture (lines 218-272), which saves the sample image or
\* returns None.
lp_Result ==
  /\ script = DOWNLOAD_LIGHT_POLLUTION
  /\ pc = "df_return"
  /\ IF df_result # "None"
     THEN /\ Return(df_result)
          /\ UNCHANGED << url_i, chunks, df_result, downloaded_files,
                          light_pollution_data >>
     ELSE IF url_i < Len(links)
          THEN /\ NextLink
               /\ UNCHANGED light_pollution_data
          ELSE /\ \E sample_path \in { SAMPLE_TEXTURE, "None" } :
                    /\ light_pollution_data' =
                         IF sample_path = "None" THEN light_pollution_data
                         ELSE light_pollution_data \cup { SAMPLE_TEXTURE }
                    /\ Return(sample_path)
               /\ UNCHANGED << url_i, chunks, df_result, downloaded_files >>
  /\ UNCHANGED << files, incomplete, tried, batch_files, batch_locals,
                  outputs, locals, wrote, script >>

(***************************************************************************)
(* process_nightlights.py: process_all_images.                             *)
(***************************************************************************)
PROCESS_ALL == "process_all_images"

\* process_image (lines 50-89) saves the texture and returns its path, fails
\* before the save, or fails in the report after the save; a failure returns
\* None.
ImageOutcomes == { "saved", "failed", "saved_then_failed" }

\* Lines 77-81 of process_image for the input file file_i.
SaveTexture(name, outcome) ==
  IF outcome = "failed"
  THEN UNCHANGED << processed_textures, texture_input >>
  ELSE /\ processed_textures' = processed_textures \cup { name }
       /\ texture_input' = [texture_input EXCEPT ![name] = file_i]

\* Lines 154-165: the loop moves to the next input file, or returns the list.
NextFile ==
  IF file_i < nasa_nightlights
  THEN /\ file_i' = file_i + 1
       /\ size_i' = 0
       /\ UNCHANGED << pc, result >>
  ELSE /\ Return("all_results")
       /\ UNCHANGED << file_i, size_i >>

\* Lines 143-152.
pa_Start ==
  /\ script = "none"
  /\ script' = PROCESS_ALL
  /\ all_results' = << >>
  /\ IF nasa_nightlights = 0
     THEN /\ Return("all_results")
          /\ UNCHANGED << file_i, size_i >>
     ELSE /\ file_i' = 1
          /\ size_i' = 0
          /\ pc' = "image"
          /\ UNCHANGED result
  /\ UNCHANGED << files, download_dirs, download_locals, batch_files,
                  outputs, locals, wrote >>

\* Lines 157-163: process_image(input_file) at the default 2000x1000; a
\* path is appended and create_multiple_sizes is entered.
pa_Main ==
  /\ script = PROCESS_ALL
  /\ pc = "image"
  /\ size_i = 0
  /\ \E outcome \in ImageOutcomes :
       /\ SaveTexture(output_filename(2000, 1000), outcome)
       /\ IF outcome = "saved"
          THEN /\ all_results' = Append(all_results, output_filename(2000, 1000))
               /\ size_i' = 1
               /\ UNCHANGED << file_i, pc, result >>
          ELSE /\ NextFile
               /\ UNCHANGED all_results
  /\ UNCHANGED << files, download_dirs, download_locals, nasa_nightlights,
                  kmeans_color_mapping_pkl, public_js, locals, wrote, script >>

\* Lines 130-137: create_multiple_sizes calls process_image for the next of
\* its sizes; line 163 extends all_results with its results.
pa_Size ==
  /\ script = PROCESS_ALL
  /\ pc = "image"
  /\ size_i \in DOMAIN sizes
  /\ \E outcome \in ImageOutcomes :
       /\ SaveTexture(output_filename(sizes[size_i][1], sizes[size_i][2]), outcome)
       /\ all_results' =
            IF outcome = "saved"
            THEN Append(all_results, output_filename(sizes[size_i][1], sizes[size_i][2]))
            ELSE all_results
  /\ IF size_i < Len(sizes)
     THEN /\ size_i' = size_i + 1
          /\ UNCHANGED << file_i, pc, result >>
     ELSE NextFile
  /\ UNCHANGED << files, download_dirs, download_locals, nasa_nightlights,
                  kmeans_color_mapping_pkl, public_js, locals, wrote, script >>

(***************************************************************************)
(* Common steps.                                                           *)
(***************************************************************************)
\* Any statement inside a `try:` may raise; `except Exception` prints and
\* returns None.
Raise ==
  /\ script # "none"
  /\ pc \in { "open", "fitted", "loop", "tone", "save", "stats" }
  /\ Return("None")
  /\ UNCHANGED << files, others, outputs, script, locals, wrote >>

\* The process ends; its variables are gone.
Exit ==
  /\ script # "none"
  /\ pc = "done"
  /\ script' = "none"
  /\ pc' = "idle"
  /\ np_weak' = FALSE
  /\ kmeans' = << >>
  /\ mapping' = << >>
  /\ img_array' = << >>
  /\ lightmap_array' = Zeros
  /\ y' = 0
  /\ x' = 0
  /\ tone' = << >>
  /\ final_img' = << >>
  /\ wrote' = FALSE
  /\ result' = "pending"
  /\ url_i' = 0
  /\ chunks' = 0
  /\ tried' = << >>
  /\ df_result' = "pending"
  /\ downloaded_files' = << >>
  /\ file_i' = 0
  /\ size_i' = 0
  /\ all_results' = << >>
  /\ UNCHANGED << files, download_dirs, batch_files, outputs >>

Next ==
  \/ an_Start \/ an_Fit \/ an_Calibrate \/ an_Dump
  \/ dk_Start \/ dk_Open \/ dk_Pixel \/ dk_Enhance \/ dk_Save \/ dk_Stats
  \/ dd_Start \/ dd_Open \/ dd_Pixel \/ dd_Enhance \/ dd_Save \/ dd_Stats
  \/ gp_Start \/ gp_Remap \/ gp_Enhance \/ gp_Save \/ gp_Stats
  \/ nl_Start \/ nl_Enhance \/ nl_Save
  \/ hm_Start \/ hm_Open \/ hm_Enhance \/ hm_Save
  \/ Raise \/ Exit

Spec == Init /\ [][Next]_vars

\* The k-means pipeline alone: the analysis and the decoder that reads its pickle.
NextKmeans ==
  \/ an_Start \/ an_Fit \/ an_Calibrate \/ an_Dump
  \/ dk_Start \/ dk_Open \/ dk_Pixel \/ dk_Enhance \/ dk_Save \/ dk_Stats
  \/ Raise \/ Exit

SpecKmeans == Init /\ [][NextKmeans]_vars

\* A fresh checkout: heatmap_data/ is empty, the downloaders fetch the
\* atlas, and the processors look for their input.
InitDownload ==
  /\ heatmap_data = { }
  /\ atlas = [ c \in Cells |-> << 200, 200, 200 >> ]
  /\ kmeans_fit = DegenerateFit
  /\ nasa_nightlights = 0
  /\ InitState

NextDownload ==
  \/ dh_Start \/ dh_Result \/ lp_Start \/ lp_Result
  \/ df_Exists \/ df_Get \/ df_Refuse \/ df_Open \/ df_Write \/ df_Close
  \/ df_Return \/ df_Except
  \/ an_Start \/ dk_Start \/ dd_Start
  \/ gp_Start \/ gp_Remap \/ gp_Enhance \/ gp_Save \/ gp_Stats
  \/ hm_Start \/ hm_Open \/ hm_Enhance \/ hm_Save
  \/ Raise \/ Exit

SpecDownload == InitDownload /\ [][NextDownload]_vars

\* The batch of night lights images.
InitNightlights ==
  /\ heatmap_data = { }
  /\ atlas = [ c \in Cells |-> << 200, 200, 200 >> ]
  /\ kmeans_fit = DegenerateFit
  /\ nasa_nightlights \in 0..MaxInputs
  /\ InitState

NextNightlights == pa_Start \/ pa_Main \/ pa_Size \/ Exit

SpecNightlights == InitNightlights /\ [][NextNightlights]_vars

(***************************************************************************)
(* Vocabulary of the properties.                                           *)
(***************************************************************************)
\* The remap loop of the running decoder has assigned cell c.
Assigned(c) == c[1] < y \/ (c[1] = y /\ c[2] < x)

\* The calibrator of the running analysis has returned its mapping.
Calibrated == script = "analysis" /\ pc \in { "returned", "done" } /\ mapping # << >>

\* The k-means decoder is past loading the pickle and the image.
Decoding == script = "decode_kmeans" /\ img_array # << >>

\* The nearest cluster of the pixel at cell c, for the running k-means decoder.
NearestOf(c) == find_closest_cluster(img_array[1][c], kmeans[1])

\* Table rank (0-based) of a category name.
RankOfCategory(name) ==
  (CHOOSE i \in 1 .. Len(cinzano_categories) : cinzano_categories[i].category = name) - 1

\* The clusters the calibrator is given: those with at least one sample pixel.
Counted(km) == { km.labels_[i] : i \in 1 .. Len(km.labels_) }

\* Number of sample pixels labelled c, and the first of them.
CountOf(km, c) == Cardinality({ i \in 1 .. Len(km.labels_) : km.labels_[i] = c })

FirstOf(km, c) ==
  CHOOSE i \in 1 .. Len(km.labels_) :
    /\ km.labels_[i] = c
    /\ \A j \in 1 .. i - 1 : km.labels_[j] # c

\* Cluster c1 has a lower brightness rank than cluster c2 (both counted): it
\* is darker, or equally bright and earlier in the order by descending count,
\* or equal in both and labelled first.
RankBelow(km, c1, c2) ==
  LET b1 == brightness(km.cluster_centers[c1])
      b2 == brightness(km.cluster_centers[c2])
  IN  \/ b1 < b2
      \/ /\ b1 = b2
         /\ \/ CountOf(km, c1) > CountOf(km, c2)
            \/ /\ CountOf(km, c1) = CountOf(km, c2)
               /\ FirstOf(km, c1) < FirstOf(km, c2)

IsBorder(m, c) == c \in DOMAIN m /\ m[c].category = BorderCategory

(***************************************************************************)
(* C1.  Monotone calibration table.                                        *)
(***************************************************************************)
\* C1 as stated: of any two table entries the calibrator has bound to clusters,
\* the entry of lower rank carries an output intensity that is not higher.
C1_TableMonotone ==
  Calibrated =>
    \A c1 \in DOMAIN mapping[1], c2 \in DOMAIN mapping[1] :
      RankOfCategory(mapping[1][c1].category) < RankOfCategory(mapping[1][c2].category)
        => mapping[1][c1].intensity <= mapping[1][c2].intensity

\* C1 amended: the same, for any two bound entries other than the border
\* entry 'White 2/Border' (which is last in the table and carries 0).
C1_TableMonotoneNonBorder ==
  Calibrated =>
    \A c1 \in DOMAIN mapping[1], c2 \in DOMAIN mapping[1] :
      /\ ~IsBorder(mapping[1], c1)
      /\ ~IsBorder(mapping[1], c2)
      /\ RankOfCategory(mapping[1][c1].category) < RankOfCategory(mapping[1][c2].category)
      => mapping[1][c1].intensity <= mapping[1][c2].intensity

\* The calibrator has bound all 16 entries of the table, the border included.
C1_Witness ==
  /\ Calibrated
  /\ Cardinality(DOMAIN mapping[1]) = Len(cinzano_categories)
  /\ \E c \in DOMAIN mapping[1] : IsBorder(mapping[1], c)

(***************************************************************************)
(* C2.  End-to-end monotonicity of the classified strategy.                *)
(***************************************************************************)
\* C2 as stated: of two remapped pixels, the one whose nearest cluster has the
\* lower brightness rank never has the strictly higher lightmap value.
C2_PixelMonotone ==
  Decoding =>
    \A p \in Cells, q \in Cells :
      Assigned(p) /\ Assigned(q) =>
        \A cp \in { NearestOf(p) }, cq \in { NearestOf(q) } :
          /\ cp \in Counted(kmeans[1])
          /\ cq \in Counted(kmeans[1])
          /\ RankBelow(kmeans[1], cp, cq)
          => lightmap_array[p] <= lightmap_array[q]

\* C2 amended: the same, for two pixels whose nearest clusters are both bound
\* to a category other than the border category.
C2_PixelMonotoneNonBorder ==
  Decoding =>
    \A p \in Cells, q \in Cells :
      Assigned(p) /\ Assigned(q) =>
        \A cp \in { NearestOf(p) }, cq \in { NearestOf(q) } :
          /\ cp \in DOMAIN mapping[1]
          /\ cq \in DOMAIN mapping[1]
          /\ ~IsBorder(mapping[1], cp)
          /\ ~IsBorder(mapping[1], cq)
          /\ cp \in Counted(kmeans[1])
          /\ cq \in Counted(kmeans[1])
          /\ RankBelow(kmeans[1], cp, cq)
          => lightmap_array[p] <= lightmap_array[q]

\* Two remapped pixels of different non-border clusters, the brighter one
\* written strictly higher.
C2_Witness ==
  /\ Decoding
  /\ \E p \in Cells, q \in Cells :
       /\ Assigned(p)
       /\ Assigned(q)
       /\ \E cp \in { NearestOf(p) }, cq \in { NearestOf(q) } :
            /\ cp \in DOMAIN mapping[1]
            /\ cq \in DOMAIN mapping[1]
            /\ ~IsBorder(mapping[1], cp)
            /\ ~IsBorder(mapping[1], cq)
            /\ RankBelow(kmeans[1], cp, cq)
            /\ lightmap_array[p] < lightmap_array[q]

(***************************************************************************)
(* C3.  Cluster rank by brightness = category rank.                        *)
(***************************************************************************)
\* Number of the given clusters that are strictly darker than, resp. not
\* brighter than, cluster c.
Darker(km, c) ==
  Cardinality({ d \in Counted(km) :
                  brightness(km.cluster_centers[d]) < brightness(km.cluster_centers[c]) })

NotBrighter(km, c) ==
  Cardinality({ d \in Counted(km) :
                  brightness(km.cluster_centers[d]) <= brightness(km.cluster_centers[c]) })

\* C3: after calibration every cluster the calibrator was given is bound, and
\* the table rank of its category is a position it can have when the given
\* clusters are put in ascending order of centroid brightness; hence a bound
\* cluster that is strictly darker than another has the lower table rank.
C3_RankBinding ==
  Calibrated =>
    /\ DOMAIN mapping[1] = Counted(kmeans[1])
    /\ \A c \in DOMAIN mapping[1] :
         /\ Darker(kmeans[1], c) <= RankOfCategory(mapping[1][c].category)
         /\ RankOfCategory(mapping[1][c].category) < NotBrighter(kmeans[1], c)
    /\ \A c1 \in DOMAIN mapping[1], c2 \in DOMAIN mapping[1] :
         brightness(kmeans[1].cluster_centers[c1]) < brightness(kmeans[1].cluster_centers[c2])
           => RankOfCategory(mapping[1][c1].category)
                < RankOfCategory(mapping[1][c2].category)

\* All 16 clusters are bound, and the cluster ids are not in brightness order.
C3_Witness ==
  /\ Calibrated
  /\ Cardinality(DOMAIN mapping[1]) = n_clusters
  /\ \E c1 \in DOMAIN mapping[1], c2 \in DOMAIN mapping[1] :
       /\ c1 > c2
       /\ brightness(kmeans[1].cluster_centers[c1]) < brightness(kmeans[1].cluster_centers[c2])
       /\ RankOfCategory(mapping[1][c1].category) < RankOfCategory(mapping[1][c2].category)

(***************************************************************************)
(* C4.  Border suppression.                                                *)
(***************************************************************************)
\* C4: every remapped pixel whose nearest cluster is bound to the border
\* category has lightmap value 0, whatever its colour.
C4_BorderSuppressed ==
  Decoding =>
    \A p \in Cells :
      Assigned(p) =>
        \A cp \in { NearestOf(p) } : IsBorder(mapping[1], cp) => lightmap_array[p] = 0

\* A pure white pixel whose nearest cluster is the border cluster was remapped.
C4_Witness ==
  /\ Decoding
  /\ \E p \in Cells :
       /\ Assigned(p)
       /\ img_array[1][p] = <<255, 255, 255>>
       /\ IsBorder(mapping[1], NearestOf(p))
       /\ lightmap_array[p] = 0

(***************************************************************************)
(* C5.  The darkest category yields 0 in both strategies.                  *)
(***************************************************************************)
\* Cluster c has brightness rank 0 among the clusters the calibrator is given.
RankZero(km, c) ==
  /\ c \in Counted(km)
  /\ \A d \in Counted(km) \ { c } : RankBelow(km, c, d)

\* C5: the k-means decoder writes 0 for every pixel whose nearest cluster has
\* brightness rank 0; the direct decoder (brightness_to_intensity) writes 0
\* for every pixel of brightness 0; process_grayscale_atlas writes 0 for
\* every pixel whose intensity channel is 0.
C5_DarkestIsZero ==
  /\ Decoding =>
       \A p \in Cells :
         Assigned(p) =>
           \A cp \in { NearestOf(p) } : RankZero(kmeans[1], cp) => lightmap_array[p] = 0
  /\ script = "decode_direct" /\ img_array # << >> =>
       \A p \in Cells :
         Assigned(p) /\ img_array[1][p] = <<0, 0, 0>> => lightmap_array[p] = 0
  /\ script = "grayscale" /\ img_array # << >> =>
       \A p \in Cells : img_array[1][p][1] = 0 => lightmap_array[p] = 0

\* The k-means decoder has written 0 for a black pixel of the rank-0 cluster,
\* on an atlas that process_grayscale_atlas has processed before.
C5_Witness ==
  /\ Decoding
  /\ public_js[ATLAS_LIGHTMAP] # << >>
  /\ \E p \in Cells :
       /\ Assigned(p)
       /\ img_array[1][p] = <<0, 0, 0>>
       /\ RankZero(kmeans[1], NearestOf(p))
       /\ lightmap_array[p] = 0

(***************************************************************************)
(* C6.  The direct decoder and white borders.                              *)
(***************************************************************************)
\* C6: the direct decoder writes 0 for every pixel of the white border colour
\* (255,255,255).
C6_WhiteBorderFiltered ==
  script = "decode_direct" /\ img_array # << >> =>
    \A p \in Cells :
      Assigned(p) /\ img_array[1][p] = <<255, 255, 255>> => lightmap_array[p] = 0

(***************************************************************************)
(* C7.  Calibration mismatch.                                              *)
(***************************************************************************)
\* C7: when the number of clusters the calibrator is given differs from the
\* length of the category table, the analysis returns no mapping.
C7_MismatchRejected ==
  /\ script = "analysis"
  /\ kmeans # << >>
  /\ Cardinality(Counted(kmeans[1])) # Len(cinzano_categories)
  => mapping = << >> /\ result # "mapping"

(***************************************************************************)
(* C8.  Unmapped clusters default to 0.                                    *)
(***************************************************************************)
\* C8: every remapped pixel whose nearest cluster has no entry in the mapping
\* has lightmap value 0.
C8_UnmappedIsZero ==
  Decoding =>
    \A p \in Cells :
      Assigned(p) =>
        \A cp \in { NearestOf(p) } : cp \notin DOMAIN mapping[1] => lightmap_array[p] = 0

\* A run that met a pixel of an unmapped cluster went on, saved its output
\* and returned the output path.
C8_Witness ==
  /\ Decoding
  /\ pc = "done"
  /\ result = CINZANO_LIGHTMAP
  /\ public_js[CINZANO_LIGHTMAP] = final_img
  /\ \E p \in Cells : NearestOf(p) \notin DOMAIN mapping[1] /\ lightmap_array[p] = 0

(***************************************************************************)
(* C9.  No partial success.                                                *)
(***************************************************************************)
\* The value the running decoder's remap writes for cell p.
RemapOf(p) ==
  IF script = "decode_kmeans"
  THEN RemapPixel(img_array[1][p], mapping[1], kmeans[1])
  ELSE process_grayscale_pixel(img_array[1][p], np_weak)

\* C9: a decoder run has written the output image only after its remap loop
\* has assigned every cell, and the image written is the tone-adjusted
\* complete lightmap; a run that ended before the loop finished has written
\* nothing.
C9_NoPartialOutput ==
  script \in { "decode_kmeans", "decode_direct" } /\ wrote =>
    /\ \A p \in Cells : Assigned(p) /\ lightmap_array[p] = RemapOf(p)
    /\ final_img # << >>
    /\ public_js[CINZANO_LIGHTMAP] = final_img

\* The direct decoder has saved its output and returned, every cell assigned.
C9_Witness ==
  /\ script = "decode_direct"
  /\ wrote
  /\ pc = "done"
  /\ result = CINZANO_LIGHTMAP
  /\ \A p \in Cells : Assigned(p)
  /\ public_js[CINZANO_LIGHTMAP] # << >>

(***************************************************************************)
(* C10.  Range invariant.                                                  *)
(***************************************************************************)
Byte == 0 .. 255

AllBytes(img) == \A c \in DOMAIN img : img[c] \in Byte

AllRGBBytes(img) == \A c \in DOMAIN img : \A k \in 1 .. 3 : img[c][k] \in Byte

\* No run has started and nothing has been written yet.
Fresh == script = "none" /\ kmeans_color_mapping_pkl = << >>
           /\ \A f \in DOMAIN public_js : public_js[f] = << >>

\* C10: every lightmap value, every stage of the tone chain, every image
\* handed to save() and every saved image has all its values in 0..255; so
\* has every entry of the three curve tables.
C10_Range ==
  /\ AllBytes(lightmap_array)
  /\ final_img # << >> => AllRGBBytes(final_img[1])
  /\ script = "nightlights" /\ tone # << >> =>
       /\ AllBytes(tone[1].grayscale)
       /\ AllBytes(tone[1].contrasted)
       /\ AllBytes(tone[1].brightened)
       /\ AllBytes(tone[1].gamma_corrected)
       /\ AllRGBBytes(tone[1].rgb_enhanced)
  /\ script = "heatmap" /\ tone # << >> =>
       /\ AllBytes(tone[1].intensity_array)
       /\ AllBytes(tone[1].contrasted)
       /\ AllBytes(tone[1].brightened)
       /\ AllRGBBytes(tone[1].final_img)
  /\ \A f \in DOMAIN public_js : public_js[f] # << >> => AllRGBBytes(public_js[f][1])
  /\ Fresh =>
       /\ \A i \in 1 .. Len(brightness_to_intensity_table) :
            brightness_to_intensity_table[i] \in Byte
       /\ \A i \in 1 .. Len(grayscale_curve_table) : grayscale_curve_table[i] \in Byte
       /\ \A i \in 1 .. Len(gamma_table) : gamma_table[i] \in Byte

\* The tone chain has clamped: a contrast-stretched value above 255 was stored
\* as 255 and one below 0 as 0.
C10_Witness ==
  /\ script = "nightlights"
  /\ tone # << >>
  /\ \E c \in Cells :
       /\ 2 * tone[1].grayscale[c] - MeanOf(tone[1].grayscale) > 255
       /\ tone[1].contrasted[c] = 255
  /\ \E c \in Cells :
       /\ 2 * tone[1].grayscale[c] - MeanOf(tone[1].grayscale) < 0
       /\ tone[1].contrasted[c] = 0

(***************************************************************************)
(* C11.  The tone step preserves rank order.                               *)
(***************************************************************************)
\* Grid `after` orders the cells as grid `before` does, up to ties.
OrderPreserved(before, after) ==
  \A p \in Cells, q \in Cells : before[p] < before[q] => after[p] <= after[q]

\* C11: for any two cells with lightmap values a < b, the contrast-enhanced
\* image handed to save() has a' <= b' (all three decoders); in the chains of
\* enhance_for_emissive (contrast, brightness, gamma table) and of
\* process_heatmap (contrast, brightness) every stage, and so the chain, keeps
\* the order of the grayscale grid it starts from.
C11_TonePreservesOrder ==
  /\ script \in { "decode_kmeans", "decode_direct", "grayscale" } /\ final_img # << >> =>
       OrderPreserved(lightmap_array, [ c \in Cells |-> final_img[1][c][1] ])
  /\ script = "nightlights" /\ tone # << >> =>
       /\ OrderPreserved(tone[1].grayscale, tone[1].contrasted)
       /\ OrderPreserved(tone[1].contrasted, tone[1].brightened)
       /\ OrderPreserved(tone[1].brightened, tone[1].gamma_corrected)
       /\ OrderPreserved(tone[1].grayscale, [ c \in Cells |-> final_img[1][c][1] ])
  /\ script = "heatmap" /\ tone # << >> =>
       /\ OrderPreserved(tone[1].intensity_array, tone[1].contrasted)
       /\ OrderPreserved(tone[1].contrasted, tone[1].brightened)
       /\ OrderPreserved(tone[1].intensity_array, [ c \in Cells |-> final_img[1][c][1] ])

\* The k-means decoder has enhanced a lightmap with two different values whose
\* contrast stretch leaves the range on both sides (an 8-bit store that
\* wrapped would have exchanged them).
C11_Witness ==
  /\ script = "decode_kmeans"
  /\ final_img # << >>
  /\ \E p \in Cells, q \in Cells :
       /\ lightmap_array[p] < lightmap_array[q]
       /\ Blend_unclipped(MeanOf(lightmap_array), lightmap_array[p], 13, 10) < 0
       /\ Blend_unclipped(MeanOf(lightmap_array), lightmap_array[q], 13, 10) > 255
       /\ final_img[1][p][1] < final_img[1][q][1]

ProbeTriples == Palette \cup { <<0, 64, 64>>, <<64, 64, 0>>, <<255, 0, 0>>, <<100, 100, 100>> }

\* Cluster c is what the query must return for triple t: no centroid is
\* nearer to t, and no centroid of a lower id is as near.
NearestLowest(km, t, c) ==
  \A d \in ClusterIds :
    /\ Dist2(t, km.cluster_centers[c]) <= Dist2(t, km.cluster_centers[d])
    /\ Dist2(t, km.cluster_centers[c]) = Dist2(t, km.cluster_centers[d]) => c <= d

Degenerate(km) ==
  Cardinality({ km.cluster_centers[c] : c \in ClusterIds }) < n_clusters

\* C14: when K exceeds the number of distinct sample colours the analysis
\* yields no cluster-to-category mapping and writes no mapping file.
C14_DegenerateRejected ==
  script = "analysis" /\ Degenerate(kmeans_fit) =>
    /\ mapping = << >>
    /\ result # "mapping"
    /\ ~wrote

(***************************************************************************)
(* C15.  Strict stage order.                                               *)
(***************************************************************************)
\* C15: in the classified pipeline each stage has the result of the stage
\* before it.  Analysis: a mapping exists only after the fit, and the pickle
\* is written only after the mapping.  Decoder: a pixel is remapped only with
\* the pickled mapping and model of a completed analysis, whose mapping is the
\* calibration of its centroids; the tone step has run only after the whole
\* remap; the image is saved only after the tone step.
C15_StageOrder ==
  /\ script = "analysis" =>
       /\ mapping # << >> => kmeans # << >>
       /\ wrote => mapping # << >> /\ pc = "done"
  /\ kmeans_color_mapping_pkl # << >> =>
       kmeans_color_mapping_pkl[1].mapping = final_mapping_of(kmeans_color_mapping_pkl[1].kmeans)
  /\ script = "decode_kmeans" =>
       /\ img_array # << >> =>
            /\ kmeans_color_mapping_pkl # << >>
            /\ mapping = << kmeans_color_mapping_pkl[1].mapping >>
            /\ kmeans = << kmeans_color_mapping_pkl[1].kmeans >>
       /\ final_img # << >> => \A c \in Cells : Assigned(c)
       /\ wrote => final_img # << >> /\ public_js[CINZANO_LIGHTMAP] = final_img

\* An execution of the classified pipeline has written its final grid.
C15_Witness ==
  /\ script = "decode_kmeans"
  /\ pc = "done"
  /\ wrote
  /\ result = CINZANO_LIGHTMAP
  /\ kmeans_color_mapping_pkl # << >>
  /\ \A c \in Cells : Assigned(c)
  /\ public_js[CINZANO_LIGHTMAP] = final_img

(***************************************************************************)
(* C16.  No shared mutable resource between runs.                          *)
(***************************************************************************)
\* C16: the output image a run has saved is not overwritten with another
\* image by any later run, of the same or of another script.
C16_OutputsNotShared ==
  [][ \A f \in DOMAIN public_js :
        public_js[f] # << >> => public_js'[f] = public_js[f] ]_vars

(***************************************************************************)
(* C17.  The input grid is read-only.                                      *)
(***************************************************************************)
\* C17: no step changes the atlas file, and from the moment the input grid is
\* loaded until the run ends no step changes any of its cells.
C17_InputReadOnly ==
  [][ /\ atlas' = atlas
      /\ heatmap_data' = heatmap_data
      /\ img_array # << >> /\ script' = script => img_array' = img_array ]_vars

\* The remapper has run over the whole grid and written values different from
\* the input into the lightmap; the loaded grid is still the atlas.
C17_Witness ==
  /\ Decoding
  /\ pc = "done"
  /\ wrote
  /\ img_array = << atlas >>
  /\ \E p \in Cells : lightmap_array[p] # img_array[1][p][1]

(***************************************************************************)
(* C18.  The lightmap is immutable once produced.                          *)
(***************************************************************************)
\* The remap of the running script is complete.
RemapDone ==
  /\ script \in { "decode_kmeans", "decode_direct", "grayscale" }
  /\ img_array # << >>
  /\ y = Height

\* C18: once the remap is complete, no step of the run (contrast enhancement,
\* RGB conversion, save, statistics, return) changes a cell of lightmap_array.
C18_LightmapImmutable ==
  [][ RemapDone /\ script' = script => lightmap_array' = lightmap_array ]_vars

\* A run has finished after a tone step whose result differs from the
\* lightmap: the result is in final_img and in the file, the lightmap of
\* process_grayscale_atlas still is the remap of the input.
C18_Witness ==
  /\ script = "grayscale"
  /\ pc = "done"
  /\ wrote
  /\ lightmap_array = GrayscaleLightmap(img_array[1])
  /\ public_js[ATLAS_LIGHTMAP] = final_img
  /\ \E p \in Cells : final_img[1][p][1] # lightmap_array[p]

(***************************************************************************)
(* C19.  The two-colour scenario.                                          *)
(***************************************************************************)
\* The input grid has the two colours of the scenario only.
TwoColourGrid(img) ==
  /\ \A c \in Cells : img[c] \in { <<0, 0, 0>>, <<200, 200, 200>> }
  /\ \E c \in Cells : img[c] = <<0, 0, 0>>
  /\ \E c \in Cells : img[c] = <<200, 200, 200>>

\* C19: on a grid of RGB(0,0,0) and RGB(200,200,200) pixels, clustered into
\* centres that are exactly these two colours (12 black and 4 grey sample
\* pixels), the classified pipeline writes 0 at every black pixel and 255 at
\* every RGB(200,200,200) pixel.
C19_TwoColourScenario ==
  Decoding /\ TwoColourGrid(img_array[1]) /\ kmeans[1] = DegenerateFit =>
    \A p \in Cells :
      Assigned(p) =>
        lightmap_array[p] = IF img_array[1][p] = <<0, 0, 0>> THEN 0 ELSE 255

(***************************************************************************)
(* C20.  The direct-channel curve.                                         *)
(***************************************************************************)
\* The maximum raw value of the atlas family (max_atlas_value = 37.0).
max_atlas_value == 37

\* C20: process_grayscale_atlas writes for every pixel the curve value of its
\* red channel v, whatever the other channels are; the values are
\* non-decreasing in v and every v >= 37 gives 255.  The curve itself, on
\* every v in 0..255: 0 at 0, non-decreasing, below 255 under 37 and 255
\* from 37 on.
C20_DirectChannelCurve ==
  /\ script = "grayscale" /\ img_array # << >> =>
       /\ \A p \in Cells :
            /\ lightmap_array[p] = grayscale_curve_table[img_array[1][p][1] + 1]
            /\ img_array[1][p][1] >= max_atlas_value => lightmap_array[p] = 255
       /\ \A p \in Cells, q \in Cells :
            img_array[1][p][1] <= img_array[1][q][1] => lightmap_array[p] <= lightmap_array[q]
  /\ Fresh =>
       /\ grayscale_curve_table[1] = 0
       /\ \A v \in 0 .. 254 : grayscale_curve_table[v + 1] <= grayscale_curve_table[v + 2]
       /\ \A v \in 0 .. max_atlas_value - 1 : grayscale_curve_table[v + 1] < 255
       /\ \A v \in max_atlas_value .. 255 : grayscale_curve_table[v + 1] = 255

\* process_grayscale_atlas has remapped a grid with a pixel below the maximum
\* raw value whose channels differ, and a pixel above it.
C20_Witness ==
  /\ script = "grayscale"
  /\ img_array # << >>
  /\ \E p \in Cells, q \in Cells :
       /\ img_array[1][p][1] < max_atlas_value
       /\ img_array[1][p][2] # img_array[1][p][1]
       /\ lightmap_array[p] > 0
       /\ lightmap_array[p] < 255
       /\ img_array[1][q][1] > max_atlas_value
       /\ lightmap_array[q] = 255

(***************************************************************************)
(* C21.  Fewer clusters than table entries.                                *)
(***************************************************************************)
\* The categories bound to some cluster by mapping m.
BoundCategories(m) == { m[c].category : c \in DOMAIN m }

\* C21: when the calibrator is given K < N clusters, the categories it binds
\* are exactly the first K table entries, clusters of lower brightness rank
\* get the earlier entry, and none of the last N-K entries (the border entry
\* among them) is bound.
C21_FirstKEntries ==
  Calibrated /\ Cardinality(Counted(kmeans[1])) < Len(cinzano_categories) =>
    LET K == Cardinality(Counted(kmeans[1]))
    IN  /\ BoundCategories(mapping[1]) = { cinzano_categories[i].category : i \in 1 .. K }
        /\ \A i \in K + 1 .. Len(cinzano_categories) :
             cinzano_categories[i].category \notin BoundCategories(mapping[1])
        /\ BorderCategory \notin BoundCategories(mapping[1])
        /\ \A c1 \in DOMAIN mapping[1], c2 \in DOMAIN mapping[1] :
             c1 # c2 /\ RankBelow(kmeans[1], c1, c2) =>
               RankOfCategory(mapping[1][c1].category) < RankOfCategory(mapping[1][c2].category)

\* The calibrator was given 3 clusters and has bound them.
C21_Witness ==
  /\ Calibrated
  /\ Cardinality(Counted(kmeans[1])) = 3
  /\ Cardinality(DOMAIN mapping[1]) = 3
  /\ BoundCategories(mapping[1]) = { "Black 1", "Black 2", "Dark Gray 1" }

(***************************************************************************)
(* C22.  The mapping is total and one-to-one.                              *)
(***************************************************************************)
\* C22: the mapping the calibrator returns is defined on every cluster id of
\* the fitted model, no category is bound to two clusters, and with as many
\* clusters as table entries every table entry is bound.
C22_MappingTotalInjective ==
  Calibrated =>
    /\ DOMAIN mapping[1] = ClusterIds
    /\ \A c1 \in DOMAIN mapping[1], c2 \in DOMAIN mapping[1] :
         mapping[1][c1].category = mapping[1][c2].category => c1 = c2
    /\ n_clusters = Len(cinzano_categories) =>
         BoundCategories(mapping[1])
           = { cinzano_categories[i].category : i \in 1 .. Len(cinzano_categories) }

(***************************************************************************)
(* C23.  The decoder's return value and its effect.                        *)
(***************************************************************************)
\* C23: a call of decode_atlas_to_lightmap_kmeans that has returned None has
\* not written cinzano_lightmap.png, and a call that has written it returns
\* its path.
C23_ReturnMatchesEffect ==
  script = "decode_kmeans" /\ pc = "done" =>
    /\ result = "None" => ~wrote
    /\ wrote => result = CINZANO_LIGHTMAP

(***************************************************************************)
(* C24.  The channel sum of the direct decoder.                            *)
(***************************************************************************)
\* C24: the direct decoder writes for every pixel the intensity of the exact
\* channel sum r+g+b (brightness (r+g+b)/3), so a grey pixel (v,v,v) gets the
\* intensity of brightness v and of two grey pixels the brighter one does not
\* get the lower intensity.
C24_ExactAverage ==
  script = "decode_direct" /\ img_array # << >> =>
    /\ \A p \in Cells :
         Assigned(p) =>
           lightmap_array[p]
             = brightness_to_intensity(img_array[1][p][1] + img_array[1][p][2]
                                       + img_array[1][p][3])
    /\ \A p \in Cells, q \in Cells :
         /\ Assigned(p) /\ Assigned(q)
         /\ img_array[1][p][1] = img_array[1][p][2] /\ img_array[1][p][2] = img_array[1][p][3]
         /\ img_array[1][q][1] = img_array[1][q][2] /\ img_array[1][q][2] = img_array[1][q][3]
         /\ img_array[1][p][1] <= img_array[1][q][1]
         => lightmap_array[p] <= lightmap_array[q]

(***************************************************************************)
(* C25.  The calibrator's tie-break.                                       *)
(***************************************************************************)
\* Fits km1 and km2 have the same centroids and the same pixel count for
\* every cluster.
SameCentroidsAndCounts(km1, km2) ==
  /\ km1.cluster_centers = km2.cluster_centers
  /\ \A c \in ClusterIds : CountOf(km1, c) = CountOf(km2, c)

EqualBrightness(km, c1, c2) ==
  brightness(km.cluster_centers[c1]) = brightness(km.cluster_centers[c2])

\* C25 as stated: of two clusters of equal brightness the one with the larger
\* count gets the lower rank, and the binding is determined by the centroids
\* and the counts: every fit with the same centroids and counts is bound in
\* the same way.
C25_DeterminedByCounts ==
  Calibrated =>
    /\ \A c1 \in DOMAIN mapping[1], c2 \in DOMAIN mapping[1] :
         /\ EqualBrightness(kmeans[1], c1, c2)
         /\ CountOf(kmeans[1], c1) > CountOf(kmeans[1], c2)
         => RankOfCategory(mapping[1][c1].category) < RankOfCategory(mapping[1][c2].category)
    /\ \A km \in FitChoices :
         SameCentroidsAndCounts(km, kmeans[1]) => final_mapping_of(km) = mapping[1]

\* C25, amended: of two clusters of equal brightness the one with the larger
\* count gets the lower rank; when the counts are equal too, the cluster
\* whose id occurs first in the label array gets the lower rank.
C25_TieBreak ==
  Calibrated =>
    \A c1 \in DOMAIN mapping[1], c2 \in DOMAIN mapping[1] :
      EqualBrightness(kmeans[1], c1, c2) /\ c1 # c2 =>
        /\ CountOf(kmeans[1], c1) > CountOf(kmeans[1], c2)
           => RankOfCategory(mapping[1][c1].category) < RankOfCategory(mapping[1][c2].category)
        /\ /\ CountOf(kmeans[1], c1) = CountOf(kmeans[1], c2)
           /\ FirstOf(kmeans[1], c1) < FirstOf(kmeans[1], c2)
           => RankOfCategory(mapping[1][c1].category) < RankOfCategory(mapping[1][c2].category)

\* Two clusters of equal brightness: the one with the larger count is labelled
\* later and still ranks first; and two more with equal counts.
C25_Witness ==
  /\ Calibrated
  /\ \E c1 \in DOMAIN mapping[1], c2 \in DOMAIN mapping[1] :
       /\ EqualBrightness(kmeans[1], c1, c2)
       /\ CountOf(kmeans[1], c1) > CountOf(kmeans[1], c2)
       /\ FirstOf(kmeans[1], c1) > FirstOf(kmeans[1], c2)
       /\ RankOfCategory(mapping[1][c1].category) < RankOfCategory(mapping[1][c2].category)
  /\ \E c1 \in DOMAIN mapping[1], c2 \in DOMAIN mapping[1] :
       /\ c1 # c2
       /\ EqualBrightness(kmeans[1], c1, c2)
       /\ CountOf(kmeans[1], c1) = CountOf(kmeans[1], c2)

(***************************************************************************)
(* C26.  The mapping file is written only on success.                      *)
(***************************************************************************)
\* C26: a step changes kmeans_color_mapping.pkl, or writes it, only in a run
\* of the analysis whose analyze_atlas_with_kmeans has returned a mapping and
\* a fitted model, and what it writes is that pair; in every other step,
\* those of a failed analysis included, the file stays as it is.
C26_PickleOnlyOnSuccess ==
  [][ \/ kmeans_color_mapping_pkl' # kmeans_color_mapping_pkl
      \/ script = "analysis" /\ wrote' /\ ~wrote
      => /\ script = "analysis"
         /\ result = "mapping"
         /\ mapping # << >>
         /\ kmeans # << >>
         /\ kmeans_color_mapping_pkl' = << [mapping |-> mapping[1], kmeans |-> kmeans[1]] >> ]_vars

\* An analysis has failed after the fit while a mapping file of an earlier run
\* exists: it has returned None and written nothing.
C26_Witness ==
  /\ script = "analysis"
  /\ pc = "done"
  /\ result = "None"
  /\ kmeans # << >>
  /\ ~wrote
  /\ kmeans_color_mapping_pkl # << >>

(***************************************************************************)
(* C27.  download_file: a file that exists at the target path is returned  *)
(* without a request and without being modified; a download that fails     *)
(* with an exception, before or between chunk writes, leaves no file at    *)
(* the target path and returns None; so outside a running transfer every   *)
(* file in a download directory is a completely downloaded file.           *)
(***************************************************************************)
\* The record of the download_file call that has just returned.
LastCall == tried[Len(tried)]

C27_FailureLeavesNoFile ==
  (script \in Downloaders /\ pc = "df_return") =>
     /\ LastCall.name = filepath
     /\ LastCall.result = df_result
     /\ df_result = "None" => filepath \notin download_dir
     /\ df_result # "None" =>
          df_result = filepath /\ filepath \in download_dir
     /\ ~LastCall.request => df_result = filepath

C27_PresentIsComplete == pc # "df_write" => incomplete = { }

C27_ExistingUntouched ==
  (script \in Downloaders /\ pc = "df_call" /\ filepath \in download_dir) =>
     /\ pc' = "df_return"
     /\ df_result' = filepath
     /\ ~tried'[Len(tried')].request
     /\ UNCHANGED << heatmap_data, light_pollution_data, incomplete >>

\* C27: download_file returns an existing file untouched and without a request,
\* a failed download leaves no file and returns None, and a file that is
\* present outside a running transfer is complete.
C27_DownloadFile ==
  /\ [](C27_FailureLeavesNoFile /\ C27_PresentIsComplete)
  /\ [][C27_ExistingUntouched]_vars

\* A transfer has failed after a chunk was written, next to a file an
\* earlier run has downloaded.
C27_Witness ==
  /\ script \in Downloaders
  /\ pc = "df_return"
  /\ df_result = "None"
  /\ chunks >= 1
  /\ \E i \in DOMAIN Candidates : Candidates[i] \in download_dir
  /\ filepath \notin download_dir

(***************************************************************************)
(* C28.  download_lorenz_heatmaps tries the candidates in list order, a    *)
(* candidate only after every earlier one has failed, stops at the first   *)
(* success, and returns at most one file; the list is empty exactly when   *)
(* every candidate has failed.                                             *)
(***************************************************************************)
\* C28: the calls of one run follow map_urls, all but the last have failed,
\* and the list holds the last call's file, or nothing when all six failed.
C28_FirstSuccess ==
  script = DOWNLOAD_HEATMAP =>
     /\ Len(tried) <= Len(map_urls)
     /\ \A i \in DOMAIN tried : tried[i].name = map_urls[i]
     /\ \A i \in DOMAIN tried : i < Len(tried) => tried[i].result = "None"
     /\ Len(downloaded_files) <= 1
     /\ pc = "done" =>
          /\ Len(tried) >= 1
          /\ LastCall.result # "None" =>
               /\ downloaded_files = << map_urls[Len(tried)] >>
               /\ result = map_urls[Len(tried)]
          /\ LastCall.result = "None" =>
               /\ Len(tried) = Len(map_urls)
               /\ downloaded_files = << >>
               /\ result = "None"
          /\ downloaded_files = << >> <=>
               /\ Len(tried) = Len(map_urls)
               /\ \A i \in DOMAIN tried : tried[i].result = "None"

\* The first two candidates failed and the third was downloaded.
C28_Witness ==
  /\ script = DOWNLOAD_HEATMAP
  /\ pc = "done"
  /\ Len(tried) = 3
  /\ tried[3].request
  /\ downloaded_files = << "world2020B.png" >>

(***************************************************************************)
(* C29.  Hand-off: once download_lorenz_heatmaps has returned a file, the  *)
(* input file of every atlas processor exists in heatmap_data, so that no  *)
(* processor stops with 'Input file not found'.                            *)
(***************************************************************************)
\* The input_file of each atlas processor.
InputFileOf ==
  [ s \in { "analysis", "decode_kmeans", "decode_direct", "grayscale", "heatmap" } |->
      IF s \in { "grayscale", "heatmap" } THEN WORLD_B ELSE LOW3 ]

\* C29: while heatmap_data holds a downloaded file, the running processor's
\* input file is in heatmap_data.
C29_HandOff ==
  (script \in DOMAIN InputFileOf /\ heatmap_data # { }) =>
     InputFileOf[script] \in heatmap_data

(***************************************************************************)
(* C30.  process_all_images returns pairwise distinct output paths, one    *)
(* per processed (input file, size) pair, and the texture of one input     *)
(* file is not overwritten by another input file or size.                  *)
(***************************************************************************)
\* C30: no path occurs twice in all_results.
C30_DistinctPaths ==
  script = PROCESS_ALL =>
     \A i, j \in DOMAIN all_results :
        i # j => all_results[i] # all_results[j]

====
